---------------------------- MODULE Spec2Model ----------------------------
(***************************************************************************)
(* Realtime session orchestrator of the voice-agent dashboard.             *)
(*                                                                         *)
(*   - the voice-test widget (dashboard/components/voice-test.js): the     *)
(*     closure state of renderVoiceTest, startSession with its suspension  *)
(*     points, cleanup, the transport / channel callbacks and the          *)
(*     tool-call bridge;                                                   *)
(*   - the meeting-bot monitor (dashboard/pages/demo.js, second            *)
(*     renderDemo): launch, status polling, stop and UI reset.             *)
(*                                                                         *)
(* Browser objects (RTCPeerConnection, RTCDataChannel, MediaStream, audio  *)
(* element, interval timers) are heap cells indexed by the number of the   *)
(* startSession invocation that created them; 0 is JavaScript null.        *)
(***************************************************************************)
EXTENDS Integers, Sequences, FiniteSets, TLC

\* ------------------------------------------------------------------ bounds
MaxSessions == 2      \* startSession invocations in one run
MaxCalls    == 1      \* tool-call events delivered in one run
MaxEvents   == 1      \* other inbound channel events delivered in one run

Sessions == 1..MaxSessions
Calls    == 1..MaxCalls
Null     == 0

\* ------------------------------------------------------------------ text
\* A string is a sequence of one-character strings.

LowerLetters == <<"a","b","c","d","e","f","g","h","i","j","k","l","m",
                  "n","o","p","q","r","s","t","u","v","w","x","y","z">>
UpperLetters == <<"A","B","C","D","E","F","G","H","I","J","K","L","M",
                  "N","O","P","Q","R","S","T","U","V","W","X","Y","Z">>
Digits       == {"0","1","2","3","4","5","6","7","8","9"}

\* String.prototype.toLowerCase, one character
toLowerChar(c) ==
    IF \E k \in 1..26 : UpperLetters[k] = c
    THEN LowerLetters[CHOOSE k \in 1..26 : UpperLetters[k] = c]
    ELSE c

toLowerCase(s) == [k \in 1..Len(s) |-> toLowerChar(s[k])]

\* the character class [a-z0-9_]
IsSafeChar(c) == \/ \E k \in 1..26 : LowerLetters[k] = c
                 \/ c \in Digits
                 \/ c = "_"

\* .replace(/[^a-z0-9_]/g, '_')
replaceUnsafe(s) == [k \in 1..Len(s) |-> IF IsSafeChar(s[k]) THEN s[k] ELSE "_"]

\* (variant) runs of underscores are left as they are
keepUnderscores(s) == s

\* .replace(/_+/g, '_')
RECURSIVE collapseUnderscores(_)
collapseUnderscores(s) ==
    IF Len(s) <= 1 THEN s
    ELSE IF s[1] = "_" /\ s[2] = "_" THEN collapseUnderscores(Tail(s))
    ELSE <<s[1]>> \o collapseUnderscores(Tail(s))

\* .replace(/^_|_$/g, '')
stripEdgeUnderscores(s) ==
    LET a == IF Len(s) > 0 /\ s[1] = "_" THEN Tail(s) ELSE s
    IN  IF Len(a) > 0 /\ a[Len(a)] = "_" THEN SubSeq(a, 1, Len(a) - 1) ELSE a

webhook_action == <<"w","e","b","h","o","o","k","_","a","c","t","i","o","n">>

\* the tool name buildToolsFromWebhooks derives from a webhook name
toolNameOf(name) ==
    LET n == stripEdgeUnderscores(collapseUnderscores(replaceUnsafe(toLowerCase(name))))
    IN  IF n = <<>> THEN webhook_action ELSE n

\* ------------------------------------------------------------------ tools
\* Webhook configurations the getWebhooks() getter may return at a start.
BookJob   == <<"B","o","o","k"," ","J","o","b">>
book_job  == <<"b","o","o","k","_","j","o","b">>
get_slot  == <<"g","e","t","_","s","l","o","t">>
UrlA      == "https://x/y"
UrlB      == "https://x/z"

WebhookConfigs ==
    { <<>>,
      << [id |-> 1, name |-> BookJob, trigger |-> "on_tool_call", url |-> UrlA,
          payloadFields |-> <<"caller_number", "summary">>],
         [id |-> 2, name |-> get_slot, trigger |-> "end_of_call", url |-> UrlB,
          payloadFields |-> <<>>] >> }

\* names a tool-call event of the remote model may carry
CallNames == {book_job, get_slot}

\* const descriptions = {...}: the own keys of the object literal
descriptions ==
    [f \in {"caller_number", "transcript", "call_duration", "summary", "address",
            "installer_message", "custom_data", "extracted_fields", "agent_name",
            "timestamp"} |->
        CASE f = "caller_number"     -> "The caller phone number"
          [] f = "transcript"        -> "Full conversation transcript"
          [] f = "call_duration"     -> "Duration of the call in seconds"
          [] f = "summary"           -> "Brief summary of the conversation and outcome"
          [] f = "address"           -> "Customer address (street, suburb, state, postcode)"
          [] f = "installer_message" -> "Detailed message for the installer"
          [] f = "custom_data"       -> "Any additional custom data"
          [] f = "extracted_fields"  -> "Extracted information like name, email, service type"
          [] f = "agent_name"        -> "Name of the AI agent"
          [] OTHER                   -> "ISO timestamp of when this was triggered"]

\* keys every object literal inherits from Object.prototype; their values are
\* functions or objects, all truthy
ObjectPrototypeKeys ==
    {"constructor", "toString", "toLocaleString", "valueOf", "hasOwnProperty",
     "isPrototypeOf", "propertyIsEnumerable", "__proto__"}

\* the value of an inherited member, which is no string
Inherited(key) == <<"inherited", key>>

\* descriptions[field]: an own key, else an inherited member, else undefined
\* (here <<>>)
descriptionLookup(field) ==
    IF field \in DOMAIN descriptions THEN <<"text", descriptions[field]>>
    ELSE IF field \in ObjectPrototypeKeys THEN Inherited(field)
    ELSE <<>>

\* descriptions[field] || field
descriptionOrKey(field) ==
    IF descriptionLookup(field) = <<>> THEN <<"text", field>>
    ELSE descriptionLookup(field)

NoProperties == [k \in {} |-> <<>>]

\* { type: 'string' } and { type: 'string', description: d }
StringProp == [type |-> "string", description |-> <<>>, properties |-> NoProperties]
DescribedString(d) == [StringProp EXCEPT !.description = <<"text", d>>]

AddressProperties ==
    [k \in {"street", "suburb", "state", "postcode"} |-> StringProp]

ExtractedProperties ==
    [k \in {"name", "email", "phone", "company", "service_type", "preferred_date",
            "notes"} |->
        DescribedString(
            CASE k = "name"           -> "Caller's full name"
              [] k = "email"          -> "Caller's email address"
              [] k = "phone"          -> "Caller's phone number"
              [] k = "company"        -> "Caller's company or business name"
              [] k = "service_type"   -> "Type of service requested"
              [] k = "preferred_date" -> "Preferred date/time for appointment"
              [] OTHER                -> "Any other relevant details mentioned by the caller")]

ExtractedDescription ==
    "All information collected from the caller during the conversation. ALWAYS include every piece of information the caller provided."

\* (variant) no branch for extracted_fields: it falls through to the string case
fieldSchemaFlat(field) ==
    IF field = "address"
    THEN [type |-> "object", description |-> descriptionLookup(field),
          properties |-> AddressProperties]
    ELSE IF field = "custom_data"
    THEN [type |-> "object", description |-> descriptionLookup(field),
          properties |-> NoProperties]
    ELSE IF field = "call_duration"
    THEN [type |-> "number", description |-> descriptionLookup(field),
          properties |-> NoProperties]
    ELSE [type |-> "string", description |-> descriptionOrKey(field),
          properties |-> NoProperties]

\* the schema the forEach body builds for one payload field
fieldSchema(field) ==
    IF field = "address"
    THEN [type |-> "object", description |-> descriptionLookup(field),
          properties |-> AddressProperties]
    ELSE IF field = "extracted_fields"
    THEN [type |-> "object", description |-> <<"text", ExtractedDescription>>,
          properties |-> ExtractedProperties]
    ELSE IF field = "custom_data"
    THEN [type |-> "object", description |-> descriptionLookup(field),
          properties |-> NoProperties]
    ELSE IF field = "call_duration"
    THEN [type |-> "number", description |-> descriptionLookup(field),
          properties |-> NoProperties]
    ELSE [type |-> "string", description |-> descriptionOrKey(field),
          properties |-> NoProperties]

\* properties[field] = schema: an assignment to "__proto__" sets the prototype
\* of the object and creates no own property
setProperty(props, field, schema) ==
    IF field = "__proto__" THEN props
    ELSE [k \in DOMAIN props \cup {field} |-> IF k = field THEN schema ELSE props[k]]

\* wh.payloadFields.forEach(field => { properties[field] = ... })
RECURSIVE buildProperties(_, _)
buildProperties(props, fields) ==
    IF fields = <<>> THEN props
    ELSE buildProperties(setProperty(props, Head(fields), fieldSchema(Head(fields))),
                         Tail(fields))

\* (variant) the filter does not look at the trigger
selectedAnyTrigger(wh) == wh.name # <<>> /\ wh.url # ""

\* .filter(wh => wh.trigger === 'on_tool_call' && wh.name && wh.url)
selectedWebhook(wh) == wh.trigger = "on_tool_call" /\ wh.name # <<>> /\ wh.url # ""

\* the tool entry .map builds for one webhook
toolOf(wh) ==
    [type |-> "function",
     name |-> toolNameOf(wh.name),
     description |-> wh.name,
     parameters |-> [type |-> "object",
                     properties |-> buildProperties(NoProperties, wh.payloadFields)],
     _webhookUrl |-> wh.url,
     _webhookId  |-> wh.id]

\* buildToolsFromWebhooks: filter, then map to tool entries
buildToolsFromWebhooks(webhooks) ==
    LET sel == SelectSeq(webhooks, selectedWebhook)
    IN  [k \in 1..Len(sel) |-> toolOf(sel[k])]

EmptyMap == [n \in {} |-> ""]

\* toolWebhookMap[name] = url
MapPut(m, name, url) ==
    [n \in DOMAIN m \cup {name} |-> IF n = name THEN url ELSE m[n]]

\* tools.forEach(tool => { toolWebhookMap[tool.name] = tool._webhookUrl })
RECURSIVE registerTools(_, _)
registerTools(m, tools) ==
    IF tools = <<>> THEN m
    ELSE registerTools(MapPut(m, Head(tools).name, Head(tools)._webhookUrl), Tail(tools))

\* (variant) an unknown tool falls back to a default webhook
MapGetOrDefault(m, name) == IF name \in DOMAIN m THEN m[name] ELSE UrlA

\* toolWebhookMap[toolName]; "" stands for undefined (falsy)
MapGet(m, name) == IF name \in DOMAIN m THEN m[name] ELSE ""


\* ------------------------------------------------------------- voice test
VARIABLES
    isActive,        \* let isActive
    pc,              \* let pc: the RTCPeerConnection in use, or Null
    dc,              \* let dc: the data channel in use, or Null
    audioEl,         \* let audioEl: the playback element, or Null
    localStream,     \* let localStream: the microphone stream, or Null
    sessionTimer,    \* let sessionTimer: interval id, or Null
    toolWebhookMap,  \* let toolWebhookMap: tool name -> webhook URL
    btnDisabled,     \* btn.disabled
    btnRecording,    \* btn.classList has 'recording' (text is the stop sign)
    vizActive,       \* viz.classList has 'active'
    status,          \* status.textContent, by kind
    transcript,      \* the lines of transcriptScroll
    pcConn,          \* per RTCPeerConnection: connectionState ("none" before creation)
    pcSig,           \* per RTCPeerConnection: signalling progress
    dcState,         \* per data channel: readyState ("none" before creation)
    trackState,      \* per microphone stream: "none", "live", "stopped"
    audioState,      \* per audio element: "none", "attached", "removed"
    timers,          \* interval ids that are running
    sent,            \* per data channel: the messages dc.send put on it
    raised,          \* the last handler ended with an uncaught exception
    cleanups,        \* the last handler called cleanup: 1, or 2 when everything
                     \* was released already (0: it did not call it)
    sess,            \* per startSession invocation: position and locals
    calls,           \* per tool-call event: the onmessage invocation handling it
    nEvents          \* other inbound events delivered so far

vtVars == <<isActive, pc, dc, audioEl, localStream, sessionTimer, toolWebhookMap,
            btnDisabled, btnRecording, vizActive, status, transcript, pcConn, pcSig,
            dcState, trackState, audioState, timers, sent, raised, cleanups, sess,
            calls, nEvents>>

\* The closure state of renderVoiceTest and the browser objects it reaches, as one
\* value: handlers are functions from such a value to such a value.
W == [isActive |-> isActive, pc |-> pc, dc |-> dc, audioEl |-> audioEl,
      localStream |-> localStream, sessionTimer |-> sessionTimer,
      toolWebhookMap |-> toolWebhookMap, btnDisabled |-> btnDisabled,
      btnRecording |-> btnRecording, vizActive |-> vizActive, status |-> status,
      transcript |-> transcript, pcConn |-> pcConn, pcSig |-> pcSig,
      dcState |-> dcState, trackState |-> trackState, audioState |-> audioState,
      timers |-> timers, sent |-> sent, raised |-> FALSE, cleanups |-> 0]

Apply(w) ==
    /\ isActive' = w.isActive
    /\ pc' = w.pc
    /\ dc' = w.dc
    /\ audioEl' = w.audioEl
    /\ localStream' = w.localStream
    /\ sessionTimer' = w.sessionTimer
    /\ toolWebhookMap' = w.toolWebhookMap
    /\ btnDisabled' = w.btnDisabled
    /\ btnRecording' = w.btnRecording
    /\ vizActive' = w.vizActive
    /\ status' = w.status
    /\ transcript' = w.transcript
    /\ pcConn' = w.pcConn
    /\ pcSig' = w.pcSig
    /\ dcState' = w.dcState
    /\ trackState' = w.trackState
    /\ audioState' = w.audioState
    /\ timers' = w.timers
    /\ sent' = w.sent
    /\ raised' = w.raised
    /\ cleanups' = w.cleanups

\* setStatus(text, color)
setStatus(w, text) == [w EXCEPT !.status = text]

\* appendTranscript(role, text): also shows the transcript panel
appendTranscript(w, role, kind, call) ==
    [w EXCEPT !.transcript = Append(@, [role |-> role, kind |-> kind, call |-> call])]

\* RTCDataChannel.close(): an open or connecting channel starts closing; its
\* close event is delivered later
closeChannel(st) == IF st \in {"connecting", "open"} THEN "closing" ELSE st

\* clearInterval(sessionTimer); sessionTimer = null
stopTimer(w) ==
    IF w.sessionTimer # Null
    THEN [w EXCEPT !.timers = @ \ {w.sessionTimer}, !.sessionTimer = Null]
    ELSE w

\* (variant) dc.close() without the null test: a second call raises
releaseChannelUnguarded(w) ==
    IF w.dc # Null
    THEN [w EXCEPT !.dcState[w.dc] = closeChannel(@), !.dc = Null]
    ELSE [w EXCEPT !.raised = TRUE]

\* try { dc.close() } catch {}; dc = null
releaseChannel(w) ==
    IF w.dc # Null
    THEN [w EXCEPT !.dcState[w.dc] = closeChannel(@), !.dc = Null]
    ELSE w

\* try { pc.close() } catch {}; pc = null
releaseTransport(w) ==
    IF w.pc # Null
    THEN [w EXCEPT !.pcConn[w.pc] = "closed", !.pc = Null]
    ELSE w

\* localStream.getTracks().forEach(t => t.stop()); localStream = null
releaseStream(w) ==
    IF w.localStream # Null
    THEN [w EXCEPT !.trackState[w.localStream] = "stopped", !.localStream = Null]
    ELSE w

\* audioEl.pause(); audioEl.srcObject = null; audioEl.remove(); audioEl = null
releaseAudio(w) ==
    IF w.audioEl # Null
    THEN [w EXCEPT !.audioState[w.audioEl] = "removed", !.audioEl = Null]
    ELSE w

\* the button, the visualizer and the tool map are reset unconditionally
resetControls(w) ==
    [w EXCEPT !.btnRecording = FALSE, !.btnDisabled = FALSE, !.vizActive = FALSE,
              !.toolWebhookMap = EmptyMap]

\* nothing is held: what a run of cleanup leaves
Released(w) ==
    /\ ~w.isActive /\ w.sessionTimer = Null /\ w.dc = Null /\ w.pc = Null
    /\ w.localStream = Null /\ w.audioEl = Null
    /\ ~w.btnRecording /\ ~w.btnDisabled /\ ~w.vizActive
    /\ DOMAIN w.toolWebhookMap = {}

cleanup(w) ==
    resetControls(releaseAudio(releaseStream(releaseTransport(releaseChannel(
        stopTimer([w EXCEPT !.isActive = FALSE,
                            !.cleanups = IF Released(w) THEN 2 ELSE 1]))))))


\* ---- state of the meeting-bot monitor (its operations follow the widget's)
VARIABLES
    currentBotId,           \* let currentBotId, or Null
    currentSessionId,       \* let currentSessionId, or Null
    statusPollingInterval,  \* let statusPollingInterval: interval id, or Null
    botTimers,              \* interval ids that are running
    nTimers,                \* interval ids handed out so far
    uiState,                \* class of the status dot: joining, in_call, done, error
    displayText,            \* the status text, by kind
    panelVisible,           \* the status panel is shown
    actions,                \* the button in #demoActions: its kind, disabled, text
    errorShown,             \* #demoError is shown
    launches,               \* per launch request: "unused", "inflight", "ok", "failed"
    launchBtnLive,          \* per launch request: the button it disabled is still in the page
    polls,                  \* per bot: status requests in flight
    ends,                   \* per bot id (or Null): endSession invocations awaiting the stop request
    pendingResets,          \* setTimeout(resetToLaunchState, 2000) callbacks not yet run
    stopRequests,           \* bot ids a leave instruction was requested for
    lastStep                \* the handler that ran last, with what it saw

botVars == <<currentBotId, currentSessionId, statusPollingInterval, botTimers, nTimers,
             uiState, displayText, panelVisible, actions, errorShown, launches,
             launchBtnLive, polls, ends, pendingResets, stopRequests, lastStep>>

\* ---- state of the tool pipeline: one webhook configuration taken through the
\* builder, the lookup map and the two endpoints that pass tools on
VARIABLES
    tbInput,    \* the webhook configuration list
    tbTools,    \* what buildToolsFromWebhooks returned for it
    tbMap,      \* the toolWebhookMap derived from tbTools
    tbSent,     \* session.tools of the request /api/realtime/token sends on
    tbSaved,    \* config.tools of the row /api/recall/launch inserts
    tbDone      \* the steps taken so far

toolVars == <<tbInput, tbTools, tbMap, tbSent, tbSaved, tbDone>>

\* ------------------------------------------------------ connection details
\* What the handlers of a connection attempt exchange with the servers, for the
\* specification that follows one attempt in detail.
VARIABLES
    secret,       \* process.env.OPENAI_API_KEY of the server
    exchange,     \* the last request /api/realtime/token served: who asked, what
                  \* the provider answered, what the handler answered
    remoteCalls,  \* requests sent to the provider's client_secrets endpoint
    thrown        \* per startSession invocation: the message of the error its
                  \* credential or exchange step threw ("" if none)

connVars == <<secret, exchange, remoteCalls, thrown>>

\* ------------------------------------------------------- webhook dispatcher
\* One request to /api/webhook/test (unnamed/part_001) and what fireWebhook makes
\* of its answer.
VARIABLES
    whReq,      \* the request: method, url, payload
    whTarget,   \* what the webhook target does with the POST it gets
    whRes,      \* the answer of the handler
    whPosts,    \* POSTs the handler sent to the target
    whResult,   \* what fireWebhook returned to the tool-call handler
    whStage     \* "new", "answered" (handler returned), "returned"

whVars == <<whReq, whTarget, whRes, whPosts, whResult, whStage>>

\* ------------------------------------------------------------ event details
\* What the events of a channel carry, for the specification that follows the
\* transcript and the arguments of tool calls.
VARIABLES
    currentAssistantText,  \* per startSession invocation: let currentAssistantText
    heard,                 \* per channel: the delta members that arrived since the
                           \* last response.audio_transcript.done
    nHeard,                \* transcript events delivered so far
    received,              \* per tool-call event: its arguments member
    posted                 \* per tool-call event: the payload given to fireWebhook

evVars == <<currentAssistantText, heard, nHeard, received, posted>>

\* ------------------------------------------------------------ launch details
\* The page of the meeting-bot monitor and the launch endpoint behind it, for the
\* specifications that follow a launch request through /api/recall/launch and the
\* page through a route change.
VARIABLES
    attached,   \* the elements renderDemo created are in the document
    backend     \* per launch request: how far /api/recall/launch got with it, the
                \* row it inserted, the bot it asked for, its answer

launchVars == <<attached, backend>>

detailVars == <<connVars, whVars, evVars, launchVars>>

\* ---- startSession ------------------------------------------------------
\* Positions of one startSession invocation: the await it is suspended at.
\*   "import"    await import('./webhook-builder.js')
\*   "token"     await fetch('/api/realtime/token'), await tokenResp.json()
\*   "mic"       await navigator.mediaDevices.getUserMedia
\*   "offer"     await pc.createOffer()
\*   "setlocal"  await pc.setLocalDescription(offer)
\*   "sdp"       await fetch('.../v1/realtime/calls'), await sdpResp.text()
\*   "setremote" await pc.setRemoteDescription
\*   "connected" returned normally, "failed" returned through the catch block,
\*   "crashed"   rejected outside the try block
\* The other fields of a session record what its handlers did:
\*   lost        an unrecoverable event of its transport or channel was delivered
\*               (connection state failed or disconnected, channel closed other
\*               than by the widget's own dc.close())
\*   lostActive  the widget was still marked active when the handler of the last
\*               such event returned
\*   teardowns   calls of cleanup() made by its catch block, its
\*               onconnectionstatechange and its dc.onclose (counted up to 2)
\*   abort       how the invocation ended when one of its awaited steps failed
NoAbort == [caught |-> TRUE, cleaned |-> TRUE, idle |-> TRUE, shown |-> TRUE]

NoSession == [pos |-> "unused", webhooks |-> <<>>, tools |-> <<>>, target |-> Null,
              lost |-> FALSE, lostActive |-> FALSE, teardowns |-> 0,
              abort |-> NoAbort]

\* how an invocation that a failed step ended left the widget (v): the error was
\* caught, cleanup was called, the widget is inactive with the start control
\* enabled, the error message is shown
Aborted(v) ==
    [caught |-> ~v.raised, cleaned |-> v.cleanups > 0,
     idle |-> ~v.isActive /\ ~v.btnDisabled, shown |-> v.status = "Error"]

\* session record r after one of its handlers ran and left the widget as v;
\* unrecoverable tells whether the event it handled was an unrecoverable one
Handled(r, v, unrecoverable) ==
    [r EXCEPT !.teardowns = IF v.cleanups > 0 /\ @ < 2 THEN @ + 1 ELSE @,
              !.lost = @ \/ unrecoverable,
              !.lostActive = IF unrecoverable THEN v.isActive ELSE @]

IsNext(i) == /\ sess[i].pos = "unused"
             /\ \A k \in Sessions : k < i => sess[k].pos # "unused"

\* the first statements of the try block, up to the token fetch
enterTry(w) == [setStatus(w, "Token") EXCEPT !.btnDisabled = TRUE]

\* catch (err) { cleanup(); setStatus(err.message) }
catchBlock(w) == setStatus(cleanup(w), "Error")

\* the statements after the last await
markConnected(w) ==
    [setStatus(w, "Connected") EXCEPT !.isActive = TRUE, !.btnDisabled = FALSE,
        !.btnRecording = TRUE, !.vizActive = TRUE, !.transcript = <<>>]

Fail(i) == /\ Apply(catchBlock(W))
           /\ sess' = [sess EXCEPT ![i] =
                  [Handled(@, catchBlock(W), FALSE) EXCEPT
                        !.pos = "failed", !.abort = Aborted(catchBlock(W))]]

\* click on the button while inactive: startSession up to its first await
ClickStart(i, cfg) ==
    /\ ~btnDisabled /\ ~isActive /\ IsNext(i)
    /\ LET w0 == [W EXCEPT !.toolWebhookMap = EmptyMap]
       IN  IF Len(cfg) > 0
           THEN /\ Apply(w0)
                /\ sess' = [sess EXCEPT ![i] = [NoSession EXCEPT !.pos = "import",
                                                                 !.webhooks = cfg]]
           ELSE /\ Apply(enterTry(w0))
                /\ sess' = [sess EXCEPT ![i] = [NoSession EXCEPT !.pos = "token"]]
    /\ UNCHANGED <<calls, nEvents, botVars, toolVars, detailVars>>

\* click on the button while active
ClickStop ==
    /\ ~btnDisabled /\ isActive
    /\ Apply(setStatus(cleanup(W), "Ended"))
    /\ UNCHANGED <<sess, calls, nEvents, botVars, toolVars, detailVars>>

ImportDone(i) ==
    /\ sess[i].pos = "import"
    /\ LET tools == buildToolsFromWebhooks(sess[i].webhooks)
       IN  /\ Apply(enterTry([W EXCEPT !.toolWebhookMap = registerTools(@, tools)]))
           /\ sess' = [sess EXCEPT ![i].pos = "token", ![i].tools = tools]
    /\ UNCHANGED <<calls, nEvents, botVars, toolVars, detailVars>>

\* the import is awaited before the try block: a rejection is not caught
ImportFail(i) ==
    /\ sess[i].pos = "import"
    /\ Apply([W EXCEPT !.raised = TRUE])
    /\ sess' = [sess EXCEPT ![i].pos = "crashed",
                            ![i].abort = Aborted([W EXCEPT !.raised = TRUE])]
    /\ UNCHANGED <<calls, nEvents, botVars, toolVars, detailVars>>

TokenOutcomes == {"ok", "http_error", "no_token", "reject"}

\* the statements from await tokenResp.json() to getUserMedia, for each way the
\* token request ends
TokenStep(i, r) ==
    /\ sess[i].pos = "token"
    /\ IF r = "ok"
       THEN /\ Apply(setStatus(W, "Mic"))
            /\ sess' = [sess EXCEPT ![i].pos = "mic"]
       ELSE Fail(i)
    /\ UNCHANGED <<calls, nEvents, botVars, toolVars>>

TokenResp(i, r) == TokenStep(i, r) /\ UNCHANGED detailVars

\* getUserMedia settles; on success the statements up to createOffer run
MicResp(i, granted) ==
    /\ sess[i].pos = "mic"
    /\ IF granted
       THEN /\ Apply([setStatus(W, "WebRTC") EXCEPT
                        !.localStream = i, !.trackState[i] = "live",
                        !.pc = i, !.pcConn[i] = "new", !.pcSig[i] = "stable",
                        !.audioEl = i, !.audioState[i] = "attached",
                        !.dc = i, !.dcState[i] = "connecting"])
            /\ sess' = [sess EXCEPT ![i].pos = "offer"]
       ELSE Fail(i)
    /\ UNCHANGED <<calls, nEvents, botVars, toolVars, detailVars>>

\* createOffer was called on the connection this invocation created; the next
\* statement reads the shared variable pc again
OfferDone(i) ==
    /\ sess[i].pos = "offer"
    /\ IF pcConn[i] = "closed" \/ pc = Null
       THEN Fail(i)
       ELSE /\ Apply(W)
            /\ sess' = [sess EXCEPT ![i].pos = "setlocal", ![i].target = pc]
    /\ UNCHANGED <<calls, nEvents, botVars, toolVars, detailVars>>

\* setLocalDescription accepts only the offer the same connection created
SetLocalDone(i) ==
    /\ sess[i].pos = "setlocal"
    /\ LET t == sess[i].target
       IN  IF t = i /\ pcConn[t] # "closed" /\ pcSig[t] = "stable"
           THEN /\ Apply([W EXCEPT !.pcSig[t] = "local"])
                /\ sess' = [sess EXCEPT ![i].pos = "sdp"]
           ELSE Fail(i)
    /\ UNCHANGED <<calls, nEvents, botVars, toolVars, detailVars>>

SdpOutcomes == {"ok", "not_ok", "reject"}

\* the statements from the response of the calls endpoint to setRemoteDescription
SdpStep(i, r) ==
    /\ sess[i].pos = "sdp"
    /\ IF r = "ok" /\ pc # Null
       THEN /\ Apply(W)
            /\ sess' = [sess EXCEPT ![i].pos = "setremote", ![i].target = pc]
       ELSE Fail(i)
    /\ UNCHANGED <<calls, nEvents, botVars, toolVars>>

SdpResp(i, r) == SdpStep(i, r) /\ UNCHANGED detailVars

\* setRemoteDescription settles; an answer needs a connection with a local offer
SetRemoteDone(i, ok) ==
    /\ sess[i].pos = "setremote"
    /\ LET t == sess[i].target
       IN  IF ok
           THEN /\ pcConn[t] # "closed" /\ pcSig[t] = "local"
                /\ Apply(markConnected([W EXCEPT !.pcSig[t] = "remote"]))
                /\ sess' = [sess EXCEPT ![i].pos = "connected"]
           ELSE Fail(i)
    /\ UNCHANGED <<calls, nEvents, botVars, toolVars, detailVars>>

\* ---- transport and channel callbacks ----------------------------------
\* pc.onconnectionstatechange: reads the shared variable pc
onconnectionstatechange(w) ==
    IF w.pc = Null THEN [w EXCEPT !.raised = TRUE]
    ELSE IF w.pcConn[w.pc] \in {"failed", "disconnected"}
         THEN setStatus(cleanup(appendTranscript(w, "agent", "lost", 0)), "Lost")
         ELSE w

ConnTransitions ==
    { <<"new", "connected">>, <<"new", "failed">>, <<"connected", "disconnected">>,
      <<"connected", "failed">>, <<"disconnected", "connected">>,
      <<"disconnected", "failed">> }

\* the connection state of connection j changes and its handler runs
PcStateChange(j, to) ==
    /\ pcSig[j] = "remote"
    /\ <<pcConn[j], to>> \in ConnTransitions
    /\ LET v == onconnectionstatechange([W EXCEPT !.pcConn[j] = to])
       IN  /\ Apply(v)
           /\ sess' = [sess EXCEPT ![j] =
                  Handled(@, v, to \in {"failed", "disconnected"})]
    /\ UNCHANGED <<calls, nEvents, botVars, toolVars, detailVars>>

\* (variant) the session is configured again once the channel is open
onopenConfiguring(w, j) ==
    [w EXCEPT !.sessionTimer = j, !.timers = @ \cup {j},
              !.sent[j] = Append(@, [type |-> "session.update", call_id |-> 0,
                                     output |-> ""])]

\* dc.onopen: starts the session timer
onopen(w, j) == [w EXCEPT !.sessionTimer = j, !.timers = @ \cup {j}]

DcOpen(j) ==
    /\ dcState[j] = "connecting" /\ pcConn[j] = "connected"
    /\ Apply(onopen([W EXCEPT !.dcState[j] = "open"], j))
    /\ UNCHANGED <<sess, calls, nEvents, botVars, toolVars, detailVars>>

\* dc.onclose
onclose(w) == IF w.isActive THEN setStatus(cleanup(w), "ServerEnded") ELSE w

\* channel j ends (closed by the peer, lost with its transport, or the close
\* event of an earlier dc.close()) and its handler runs
DcClose(j) ==
    /\ \/ dcState[j] \in {"open", "closing"}
       \/ dcState[j] = "connecting" /\ pcConn[j] = "failed"
    /\ LET v == onclose([W EXCEPT !.dcState[j] = "closed"])
       IN  /\ Apply(v)
           /\ sess' = [sess EXCEPT ![j] = Handled(@, v, dcState[j] # "closing")]
    /\ UNCHANGED <<calls, nEvents, botVars, toolVars, detailVars>>

\* the setInterval callback of dc.onopen
ontick(w) ==
    IF w.isActive /\ w.status \in {"YourTurn", "Connected"}
    THEN setStatus(w, "YourTurn") ELSE w

TimerTick(t) ==
    /\ t \in timers
    /\ Apply(ontick(W))
    /\ UNCHANGED <<sess, calls, nEvents, botVars, toolVars, detailVars>>


\* ---- dc.onmessage ------------------------------------------------------
\* inbound events other than tool calls, by the case of the switch they take
EventKinds == {"speech_started", "speech_stopped", "audio_delta",
               "response_done", "response_failed", "error"}

\* (variant) a failed response ends the session
oneventStrict(w, kind) ==
    CASE kind = "speech_started"  -> setStatus(w, "Listening")
      [] kind = "speech_stopped"  -> setStatus(w, "Thinking")
      [] kind = "audio_delta"     -> setStatus(w, "Speaking")
      [] kind = "response_done"   -> setStatus(w, "YourTurn")
      [] kind = "response_failed" ->
            setStatus(cleanup(appendTranscript(w, "agent", "response_failed", 0)),
                      "Error")
      [] kind = "error"           -> appendTranscript(w, "agent", "error", 0)
      [] OTHER                    -> w

onevent(w, kind) ==
    CASE kind = "speech_started"  -> setStatus(w, "Listening")
      [] kind = "speech_stopped"  -> setStatus(w, "Thinking")
      [] kind = "audio_delta"     -> setStatus(w, "Speaking")
      [] kind = "response_done"   -> setStatus(w, "YourTurn")
      [] kind = "response_failed" ->
            setStatus(appendTranscript(w, "agent", "response_failed", 0), "YourTurn")
      [] kind = "error"           -> appendTranscript(w, "agent", "error", 0)
      [] OTHER                    -> w

\* (variant) the tool-call handler keeps the event loop while its dispatch is in
\* flight: no message event is handed to dc.onmessage meanwhile
DeliverableWhenIdle(j) ==
    dcState[j] = "open" /\ \A c \in Calls : calls[c].state # "inflight"

\* a message event of channel j can be handed to dc.onmessage: the channel is
\* open; the handler is an async function, suspended at its await
Deliverable(j) == dcState[j] = "open"

\* an event other than a tool call arrives on channel j
DcEvent(j, kind) ==
    /\ Deliverable(j)
    /\ nEvents < MaxEvents
    /\ nEvents' = nEvents + 1
    /\ Apply(onevent(W, kind))
    /\ UNCHANGED <<sess, calls, botVars, toolVars, detailVars>>

\* messages the client puts on a channel
FunctionResult(c, out) ==
    [type |-> "conversation.item.create", call_id |-> c, output |-> out]
ResponseCreate == [type |-> "response.create", call_id |-> 0, output |-> ""]

\* (variant) the result is sent but the continuation request is left out
sendToolResultOnly(w, c, out) ==
    IF w.dc # Null /\ w.dcState[w.dc] = "open"
    THEN [w EXCEPT !.sent[w.dc] = Append(@, FunctionResult(c, out))]
    ELSE w

\* if (dc && dc.readyState === 'open') { dc.send(function_call_output);
\*                                       dc.send(response.create) }
sendToolResult(w, c, out) ==
    IF w.dc # Null /\ w.dcState[w.dc] = "open"
    THEN [w EXCEPT !.sent[w.dc] = @ \o <<FunctionResult(c, out), ResponseCreate>>]
    ELSE w

\* fireWebhook: what it returns for each way the POST to /api/webhook/test ends
\*   "2xx"       proxy answers {success: true, status: 200}
\*   "503"       proxy answers {success: false, status: 503}
\*   "proxy_500" proxy answers HTTP 500 {error, success: false}
\*   "reject"    fetch or resp.json() throws
\* requests: the calls of fetch it made (one, at line 101, in no loop)
PostOutcomes == {"2xx", "503", "proxy_500", "reject"}

\* (variant) a dispatch that did not succeed is sent a second time
fireWebhookRetrying(outcome) ==
    CASE outcome = "2xx" -> [success |-> TRUE,  status |-> 200, error |-> "",
                             requests |-> 1]
      [] outcome = "503" -> [success |-> FALSE, status |-> 503, error |-> "",
                             requests |-> 2]
      [] OTHER           -> [success |-> FALSE, status |-> 0,   error |-> "fetch",
                             requests |-> 2]

fireWebhook(outcome) ==
    CASE outcome = "2xx"       -> [success |-> TRUE,  status |-> 200, error |-> "",
                                   requests |-> 1]
      [] outcome = "503"       -> [success |-> FALSE, status |-> 503, error |-> "",
                                   requests |-> 1]
      [] outcome = "proxy_500" -> [success |-> FALSE, status |-> 0,   error |-> "",
                                   requests |-> 1]
      [] OTHER                 -> [success |-> FALSE, status |-> 0,   error |-> "fetch",
                                   requests |-> 1]

\* One onmessage invocation for a tool-call event. state, ch, name and url are
\* what the invocation holds; the other fields record what it did:
\*   inMap   the tool name was a key of toolWebhookMap at the lookup
\*   posts   POSTs to /api/webhook/test it made
\*   lines   the transcript lines it appended, by kind
\*   dcAt    the channel dc named when the result was ready, if open (else Null)
\*   intact  its last part left isActive, dc and pc alone, called no cleanup and
\*           raised nothing
NoCall == [state |-> "unused", ch |-> Null, name |-> <<>>, url |-> "", outcome |-> "",
           inMap |-> FALSE, posts |-> 0, lines |-> <<>>, dcAt |-> Null,
           intact |-> TRUE]

\* the channel dc names, if it is open
OpenChannel(w) == IF w.dc # Null /\ w.dcState[w.dc] = "open" THEN w.dc ELSE Null

\* the kinds of the transcript lines a handler run from w to v appended
Appended(w, v) ==
    [k \in 1..(Len(v.transcript) - Len(w.transcript)) |->
        v.transcript[Len(w.transcript) + k].kind]

\* a handler run from w to v left the session alone
Intact(w, v) == /\ v.isActive = w.isActive /\ v.dc = w.dc /\ v.pc = w.pc
                /\ v.cleanups = 0 /\ ~v.raised

IsNextCall(c) == /\ calls[c].state = "unused"
                 /\ \A k \in Calls : k < c => calls[k].state # "unused"

\* (variant) a call of an unbound tool is answered without a transcript line
toolUnconfiguredSilent(w, c) ==
    setStatus(sendToolResult(w, c, "no_webhook"), "YourTurn")

\* the statements of case 'response.function_call_arguments.done' after the
\* webhook lookup found nothing
toolUnconfigured(w, c) ==
    setStatus(sendToolResult(appendTranscript(w, "webhook", "unconfigured", c),
                             c, "no_webhook"), "YourTurn")

\* (variant) a failed dispatch ends the session
toolResolvedOrAbort(w, c, result) ==
    IF result.success
    THEN setStatus(sendToolResult(appendTranscript(w, "webhook", "succeeded", c),
                                  c, "success"), "YourTurn")
    ELSE setStatus(cleanup(appendTranscript(w, "webhook", "failed", c)), "Error")

\* the statements after await fireWebhook
toolResolved(w, c, result) ==
    LET w1 == IF result.success
              THEN appendTranscript(w, "webhook", "succeeded", c)
              ELSE appendTranscript(w, "webhook", "failed", c)
        out == IF result.success THEN "success" ELSE "failure"
    IN  setStatus(sendToolResult(w1, c, out), "YourTurn")

\* a tool-call event for tool `name` arrives on channel j: the handler runs up to
\* await fireWebhook, or to its end when no webhook is bound
ToolCallStep(j, c, name) ==
    /\ Deliverable(j)
    /\ IsNextCall(c)
    /\ LET w1  == appendTranscript(setStatus(W, "Firing"), "webhook", "calling", c)
           url == MapGet(w1.toolWebhookMap, name)
           rec == [NoCall EXCEPT !.ch = j, !.name = name, !.url = url,
                                 !.inMap = (name \in DOMAIN toolWebhookMap)]
       IN  IF url # ""
           THEN /\ Apply(w1)
                /\ calls' = [calls EXCEPT ![c] =
                     [rec EXCEPT !.state = "inflight", !.posts = 1,
                                 !.lines = Appended(W, w1)]]
           ELSE /\ Apply(toolUnconfigured(w1, c))
                /\ calls' = [calls EXCEPT ![c] =
                     [rec EXCEPT !.state = "done", !.outcome = "none",
                                 !.lines = Appended(W, toolUnconfigured(w1, c)),
                                 !.dcAt = OpenChannel(W),
                                 !.intact = Intact(W, toolUnconfigured(w1, c))]]
    /\ UNCHANGED <<sess, nEvents, botVars, toolVars>>

ToolCall(j, c, name) == ToolCallStep(j, c, name) /\ UNCHANGED detailVars

\* the POST of call c settles and the handler runs to its end
WebhookDone(c, outcome) ==
    /\ calls[c].state = "inflight"
    /\ LET result == fireWebhook(outcome)
       IN  /\ Apply(toolResolved(W, c, result))
           /\ calls' = [calls EXCEPT ![c].state = "done", ![c].outcome = outcome,
                   ![c].posts = result.requests,
                   ![c].lines = @ \o Appended(W, toolResolved(W, c, result)),
                   ![c].dcAt = OpenChannel(W),
                   ![c].intact = Intact(W, toolResolved(W, c, result))]
    /\ UNCHANGED <<sess, nEvents, botVars, toolVars, detailVars>>

\* ------------------------------------------------------------------ bot
\* The meeting-bot monitor: the closure state of renderDemo (Google Meet page).
MaxLaunches == 3      \* launch requests sent in one run
MaxPolls    == 2      \* status requests in flight at one time

Bots   == 1..MaxLaunches
Unset  == <<"?">>     \* a status the response does not carry (undefined)

\* status codes the status endpoint may report
S_in_call_recording == <<"i","n","_","c","a","l","l","_","r","e","c","o","r","d","i","n","g">>
S_active == <<"a","c","t","i","v","e">>
S_joining_call == <<"j","o","i","n","i","n","g","_","c","a","l","l">>
S_scheduling == <<"s","c","h","e","d","u","l","i","n","g">>
S_in_waiting_room == <<"i","n","_","w","a","i","t","i","n","g","_","r","o","o","m">>
S_done == <<"d","o","n","e">>
S_call_ended == <<"c","a","l","l","_","e","n","d","e","d">>
S_fatal_error == <<"f","a","t","a","l","_","e","r","r","o","r">>
S_ready == <<"r","e","a","d","y">>
\* codes the page itself passes to updateStatusUI or compares with
S_joining == <<"j","o","i","n","i","n","g">>
S_ended == <<"e","n","d","e","d">>
\* String.prototype.includes
Includes(s, sub) ==
    \E k \in 0..(Len(s) - Len(sub)) : SubSeq(s, k + 1, k + Len(sub)) = sub

\* statusCode?.includes(sub): false for a missing code
OptIncludes(code, sub) == code # Unset /\ Includes(code, sub)

P_in_call == <<"i","n","_","c","a","l","l">>
P_joining == <<"j","o","i","n","i","n","g">>
P_waiting_room == <<"w","a","i","t","i","n","g","_","r","o","o","m">>
P_done == <<"d","o","n","e">>
P_ended == <<"e","n","d","e","d">>
P_fatal == <<"f","a","t","a","l">>
P_error == <<"e","r","r","o","r">>

\* a code that only contains the word of an equality test of updateStatusUI
S_inactive == <<"i","n","a","c","t","i","v","e">>

\* the substrings updateStatusUI looks for, and codes that carry two of them
Patterns == {P_in_call, P_joining, P_waiting_room, P_done, P_ended, P_fatal, P_error}
TwoPatternCodes == { p \o <<"_">> \o q : p \in Patterns, q \in Patterns }

StatusCodes == {S_in_call_recording, S_active, S_joining_call, S_scheduling,
                S_in_waiting_room, S_done, S_call_ended, S_fatal_error, S_ready,
                S_joining, S_ended, S_inactive, <<>>}
               \cup Patterns \cup TwoPatternCodes


\* The closure state of renderDemo and the page elements it writes, as one value.
B == [currentBotId |-> currentBotId, currentSessionId |-> currentSessionId,
      statusPollingInterval |-> statusPollingInterval, botTimers |-> botTimers,
      nTimers |-> nTimers, uiState |-> uiState, displayText |-> displayText,
      panelVisible |-> panelVisible, actions |-> actions, errorShown |-> errorShown,
      launchBtnLive |-> launchBtnLive, attached |-> attached]

ApplyB(b) ==
    /\ currentBotId' = b.currentBotId
    /\ currentSessionId' = b.currentSessionId
    /\ statusPollingInterval' = b.statusPollingInterval
    /\ botTimers' = b.botTimers
    /\ nTimers' = b.nTimers
    /\ uiState' = b.uiState
    /\ displayText' = b.displayText
    /\ panelVisible' = b.panelVisible
    /\ actions' = b.actions
    /\ errorShown' = b.errorShown
    /\ launchBtnLive' = b.launchBtnLive

LaunchButton == [kind |-> "launch", disabled |-> FALSE]
EndButton    == [kind |-> "end", disabled |-> FALSE]

\* if (actions) actions.innerHTML = ...: the buttons that were in the page are gone
replaceActions(b, button) ==
    IF b.attached
    THEN [b EXCEPT !.actions = button, !.launchBtnLive = [l \in Bots |-> FALSE]]
    ELSE b

\* (variant) the tests for the ended codes come first
ruleOfEndedFirst(statusCode) ==
    IF \/ OptIncludes(statusCode, P_done) \/ OptIncludes(statusCode, P_ended)
       \/ statusCode = S_ended
    THEN "done"
    ELSE IF OptIncludes(statusCode, P_in_call) \/ statusCode = S_active THEN "in_call"
    ELSE IF \/ OptIncludes(statusCode, P_joining) \/ statusCode = S_scheduling
            \/ statusCode = S_joining
         THEN "joining"
    ELSE IF OptIncludes(statusCode, P_waiting_room) THEN "waiting_room"
    ELSE IF OptIncludes(statusCode, P_fatal) \/ OptIncludes(statusCode, P_error)
         THEN "error"
    ELSE "none"

\* the rule of updateStatusUI a status code falls under, in the order of its
\* if / else-if chain
ruleOf(statusCode) ==
    IF OptIncludes(statusCode, P_in_call) \/ statusCode = S_active THEN "in_call"
    ELSE IF \/ OptIncludes(statusCode, P_joining) \/ statusCode = S_scheduling
            \/ statusCode = S_joining
         THEN "joining"
    ELSE IF OptIncludes(statusCode, P_waiting_room) THEN "waiting_room"
    ELSE IF \/ OptIncludes(statusCode, P_done) \/ OptIncludes(statusCode, P_ended)
            \/ statusCode = S_ended
         THEN "done"
    ELSE IF OptIncludes(statusCode, P_fatal) \/ OptIncludes(statusCode, P_error)
         THEN "error"
    ELSE "none"

\* data.status?.includes('done') || data.status?.includes('ended')
isDone(statusCode) ==
    OptIncludes(statusCode, P_done) \/ OptIncludes(statusCode, P_ended)

\* the two tests above, tabulated over the codes of the model
RuleTable == [c \in StatusCodes \cup {Unset} |-> ruleOf(c)]
DoneTable == [c \in StatusCodes \cup {Unset} |-> isDone(c)]

\* updateStatusUI(statusCode, message); message is "" when empty or missing
updateStatusUI(b, statusCode, message) ==
    LET fallback == IF message # "" THEN "message"
                    ELSE IF statusCode = Unset THEN "undefined" ELSE "code"
        rule == RuleTable[statusCode]
        r == CASE rule = "in_call"      -> <<"in_call", "active">>
               [] rule = "joining"      -> <<"joining", "joining">>
               [] rule = "waiting_room" -> <<"joining", "waiting_room">>
               [] rule = "done"         -> <<"done", "ended">>
               [] rule = "error"        ->
                     <<"error", IF message # "" THEN "message" ELSE "error">>
               [] OTHER                 -> <<"joining", fallback>>
    IN  IF b.attached
        THEN [b EXCEPT !.panelVisible = TRUE, !.uiState = r[1], !.displayText = r[2]]
        ELSE b

\* clearInterval(id)
clearInterval(b, id) == [b EXCEPT !.botTimers = @ \ {id}]

\* (variant) a new timer is started without stopping the one the variable names
startStatusPollingNoClear(b) ==
    LET id == b.nTimers + 1
    IN  [b EXCEPT !.nTimers = id, !.botTimers = @ \cup {id},
                  !.statusPollingInterval = id]

\* startStatusPolling: stop the timer the variable names, start a new one
startStatusPolling(b) ==
    LET b1 == IF b.statusPollingInterval # Null
              THEN clearInterval(b, b.statusPollingInterval) ELSE b
        id == b1.nTimers + 1
    IN  [b1 EXCEPT !.nTimers = id, !.botTimers = @ \cup {id},
                   !.statusPollingInterval = id]

\* showActiveSession
showActiveSession(b) ==
    updateStatusUI(replaceActions(b, EndButton), S_joining, "message")

\* resetToLaunchState
resetToLaunchState(b) ==
    [replaceActions(b, LaunchButton) EXCEPT
        !.currentBotId = Null, !.currentSessionId = Null,
        !.panelVisible = IF b.attached THEN FALSE ELSE @]

\* lastStep: what the handler that ran last was and saw, kept for the handlers
\* that end an await (LaunchResp, PollResp, EndResp)
NoStep == [op |-> "none", code |-> Unset, outcome |-> "", bot |-> Null,
           uiBefore |-> "", timersBefore |-> {}]
OtherStep == [NoStep EXCEPT !.op = "other"]

\* click on Launch Agent: validation, then the launch request is sent
LaunchClick(l, urlOk, promptOk) ==
    /\ actions.kind = "launch" /\ ~actions.disabled
    /\ launches[l] = "unused"
    /\ \A k \in Bots : k < l => launches[k] # "unused"
    /\ IF urlOk /\ promptOk
       THEN /\ ApplyB([B EXCEPT !.errorShown = FALSE, !.actions.disabled = TRUE,
                                !.launchBtnLive[l] = TRUE])
            /\ launches' = [launches EXCEPT ![l] = "inflight"]
       ELSE /\ ApplyB([B EXCEPT !.errorShown = TRUE])
            /\ UNCHANGED launches
    /\ lastStep' = OtherStep
    /\ UNCHANGED <<polls, ends, pendingResets, stopRequests, vtVars, toolVars, detailVars>>

\* the launch request settles; a successful launch creates bot l
LaunchStep(l, ok) ==
    /\ launches[l] = "inflight"
    /\ IF ok
       THEN /\ ApplyB(startStatusPolling(showActiveSession(
                    [B EXCEPT !.currentBotId = l, !.currentSessionId = l])))
            /\ launches' = [launches EXCEPT ![l] = "ok"]
       ELSE /\ ApplyB([B EXCEPT !.errorShown = IF attached THEN TRUE ELSE @,
                        !.actions.disabled = IF launchBtnLive[l] THEN FALSE ELSE @])
            /\ launches' = [launches EXCEPT ![l] = "failed"]
    /\ lastStep' = [NoStep EXCEPT !.op = "LaunchResp", !.bot = l,
                                  !.outcome = IF ok THEN "ok" ELSE "failed"]
    /\ UNCHANGED <<polls, ends, pendingResets, stopRequests, vtVars, toolVars>>

LaunchResp(l, ok) == LaunchStep(l, ok) /\ UNCHANGED detailVars

\* the interval callback up to its await: timer t fires
PollTick(t) ==
    /\ t \in botTimers
    /\ IF currentBotId = Null
       THEN /\ ApplyB(clearInterval(B, statusPollingInterval))
            /\ UNCHANGED polls
       ELSE /\ polls[currentBotId] < MaxPolls
            /\ ApplyB(B)
            /\ polls' = [polls EXCEPT ![currentBotId] = @ + 1]
    /\ lastStep' = OtherStep
    /\ UNCHANGED <<launches, ends, pendingResets, stopRequests, vtVars, toolVars, detailVars>>

\* the interval callback after its await, for each way the status request ends
\*   "ok"         HTTP 200 with {status, statusMessage}
\*   "http_error" the status endpoint answers non-2xx with {error}: no status field
\*   "reject"     fetch or resp.json() throws: caught and logged
PollOutcomes == {"ok", "http_error", "reject"}

\* the codes the status endpoint reports in a run
PolledCodes == {S_in_call_recording, S_in_waiting_room, S_call_ended, S_done,
                S_fatal_error, S_ready}

\* The responses a status request may meet. updateStatusUI reads the message only
\* for a code of the Failed rule or of no rule, so only those come with one too.
PollResponses ==
    { [outcome |-> "ok", code |-> c, message |-> ""] : c \in PolledCodes }
    \cup { [outcome |-> "ok", code |-> c, message |-> "msg"] : c \in {S_fatal_error, S_ready} }
    \cup { [outcome |-> o, code |-> Unset, message |-> ""] : o \in PollOutcomes \ {"ok"} }

\* (variant) the auto-stop test looks for "done" only
onPollResponseDoneOnly(b, outcome, code, message) ==
    IF outcome = "reject" THEN b
    ELSE LET st == IF outcome = "ok" THEN code ELSE Unset
             ms == IF outcome = "ok" THEN message ELSE ""
             b1 == updateStatusUI(b, st, ms)
         IN  IF OptIncludes(st, P_done)
             THEN  resetToLaunchState(
                    [clearInterval(b1, b1.statusPollingInterval)
                        EXCEPT !.statusPollingInterval = Null])
             ELSE b1

onPollResponse(b, outcome, code, message) ==
    IF outcome = "reject" THEN b
    ELSE LET st == IF outcome = "ok" THEN code ELSE Unset
             ms == IF outcome = "ok" THEN message ELSE ""
             b1 == updateStatusUI(b, st, ms)
         IN  IF DoneTable[st]
             THEN resetToLaunchState(
                    [clearInterval(b1, b1.statusPollingInterval)
                        EXCEPT !.statusPollingInterval = Null])
             ELSE b1

PollResp(bot, r) ==
    /\ polls[bot] > 0
    /\ polls' = [polls EXCEPT ![bot] = @ - 1]
    /\ ApplyB(onPollResponse(B, r.outcome, r.code, r.message))
    /\ lastStep' = [op |-> "PollResp", code |-> r.code, outcome |-> r.outcome,
                    bot |-> bot, uiBefore |-> uiState, timersBefore |-> botTimers]
    /\ UNCHANGED <<launches, ends, pendingResets, stopRequests, vtVars, toolVars, detailVars>>

\* click on End Session: endSession up to its await
EndClick ==
    /\ actions.kind = "end" /\ ~actions.disabled
    /\ ApplyB([B EXCEPT !.actions.disabled = TRUE])
    /\ ends' = [ends EXCEPT ![currentBotId] = @ + 1]
    /\ stopRequests' = stopRequests \cup {currentBotId}
    /\ lastStep' = OtherStep
    /\ UNCHANGED <<launches, polls, pendingResets, vtVars, toolVars, detailVars>>

\* endSession after its await, for each way the stop request ends
StopOutcomes == {"ok", "http_error", "reject"}

\* (variant) no try/catch around the stop request: a rejection ends endSession
afterStopUncaught(b, outcome) ==
    IF outcome = "reject" THEN b
    ELSE [updateStatusUI(
            [clearInterval(b, b.statusPollingInterval) EXCEPT !.statusPollingInterval = Null],
            S_done, "message")
          EXCEPT !.currentBotId = Null, !.currentSessionId = Null]

\* the statements of endSession after the try/catch around the stop request
afterStop(b, outcome) ==
    LET b1 == IF b.statusPollingInterval # Null
              THEN [clearInterval(b, b.statusPollingInterval)
                        EXCEPT !.statusPollingInterval = Null]
              ELSE b
    IN  [updateStatusUI(b1, S_done, "message") EXCEPT
            !.currentBotId = Null, !.currentSessionId = Null]

EndResp(bot, outcome) ==
    /\ ends[bot] > 0
    /\ ends' = [ends EXCEPT ![bot] = @ - 1]
    /\ ApplyB(afterStop(B, outcome))
    /\ pendingResets' = pendingResets + 1
    /\ lastStep' = [NoStep EXCEPT !.op = "EndResp", !.bot = bot, !.outcome = outcome]
    /\ UNCHANGED <<launches, polls, stopRequests, vtVars, toolVars, detailVars>>

\* the setTimeout callback of endSession
ResetTimeout ==
    /\ pendingResets > 0
    /\ pendingResets' = pendingResets - 1
    /\ ApplyB(resetToLaunchState(B))
    /\ lastStep' = OtherStep
    /\ UNCHANGED <<launches, polls, ends, stopRequests, vtVars, toolVars, detailVars>>

InitBot ==
    /\ currentBotId = Null /\ currentSessionId = Null
    /\ statusPollingInterval = Null /\ botTimers = {} /\ nTimers = 0
    /\ uiState = "" /\ displayText = "" /\ panelVisible = FALSE
    /\ actions = LaunchButton /\ errorShown = FALSE
    /\ launches = [l \in Bots |-> "unused"]
    /\ launchBtnLive = [l \in Bots |-> FALSE]
    /\ polls = [b \in Bots |-> 0]
    /\ ends = [b \in {Null} \cup Bots |-> 0]
    /\ pendingResets = 0
    /\ stopRequests = {}
    /\ lastStep = NoStep

NextBot ==
    \/ \E l \in Bots, u \in BOOLEAN, p \in BOOLEAN : LaunchClick(l, u, p)
    \/ \E l \in Bots, ok \in BOOLEAN : LaunchResp(l, ok)
    \/ \E t \in 1..MaxLaunches : PollTick(t)
    \/ \E b \in Bots, r \in PollResponses : PollResp(b, r)
    \/ EndClick
    \/ \E b \in {Null} \cup Bots, o \in StopOutcomes : EndResp(b, o)
    \/ ResetTimeout

\* ------------------------------------------------------------------ tool pipeline
MaxNameLen == 3       \* characters of a generated webhook name

\* one character of each kind the normalisation tells apart
NameAlphabet == {"a", "B", "9", "_", " ", "!"}
Names == UNION { [1..k -> NameAlphabet] : k \in 0..MaxNameLen }

BookAppointment ==
    <<"B","o","o","k"," ","A","p","p","o","i","n","t","m","e","n","t","!","!">>
book_appointment ==
    <<"b","o","o","k","_","a","p","p","o","i","n","t","m","e","n","t">>

\* payloadFields lists: known keys of each kind, unknown keys, a repeated key
FieldLists ==
    { <<>>,
      <<"caller_number", "summary">>,
      <<"address", "custom_data", "call_duration">>,
      <<"extracted_fields", "extracted_information">>,
      <<"my_field", "transcript">>,
      <<"constructor">>,
      <<"__proto__", "summary">>,
      <<"summary", "summary">> }

Webhook(id, name, trigger, url, fields) ==
    [id |-> id, name |-> name, trigger |-> trigger, url |-> url,
     payloadFields |-> fields]

\* webhooks with identifier id that differ in what the filter looks at
FilterPool(id) ==
    { Webhook(id, n, t, u, f) :
        n \in {BookJob, book_job, <<>>}, t \in {"on_tool_call", "end_of_call"},
        u \in {"", UrlA, UrlB}, f \in {<<>>, <<"summary">>} }

\* the configuration lists the builder is given
WebhookLists ==
    { <<>> }
    \cup { <<Webhook(1, n, "on_tool_call", UrlA, <<>>)>> : n \in Names \cup {BookAppointment} }
    \cup { <<Webhook(1, BookJob, "on_tool_call", UrlA, f)>> : f \in FieldLists }
    \cup { <<a, b>> : a \in FilterPool(1), b \in FilterPool(2) }

\* (variant) only the bound URL is removed
stripUrlOnly(tool) == [f \in DOMAIN tool \ {"_webhookUrl"} |-> tool[f]]

\* const { _webhookUrl, _webhookId, ...cleanTool } = tool
stripTool(tool) == [f \in DOMAIN tool \ {"_webhookUrl", "_webhookId"} |-> tool[f]]

\* /api/realtime/token: reqBody.session.tools (left out for an empty list)
tokenTools(tools) == [k \in 1..Len(tools) |-> stripTool(tools[k])]

\* /api/recall/launch: sessionConfig.tools
launchTools(tools) == [k \in 1..Len(tools) |-> stripTool(tools[k])]

\* startSession and launchAgent: the tools are built and, in the widget, the lookup
\* map is filled from them
BuildTools ==
    /\ tbDone = {}
    /\ tbTools' = buildToolsFromWebhooks(tbInput)
    /\ tbMap' = registerTools(EmptyMap, buildToolsFromWebhooks(tbInput))
    /\ tbDone' = {"build"}
    /\ UNCHANGED <<tbInput, tbSent, tbSaved, vtVars, botVars, detailVars>>

\* the token endpoint passes the tools of the request on to the provider
IssueToken ==
    /\ "build" \in tbDone /\ "token" \notin tbDone
    /\ tbSent' = tokenTools(tbTools)
    /\ tbDone' = tbDone \cup {"token"}
    /\ UNCHANGED <<tbInput, tbTools, tbMap, tbSaved, vtVars, botVars, detailVars>>

\* the launch endpoint stores the tools of the request in the session row
PersistLaunch ==
    /\ "build" \in tbDone /\ "launch" \notin tbDone
    /\ tbSaved' = launchTools(tbTools)
    /\ tbDone' = tbDone \cup {"launch"}
    /\ UNCHANGED <<tbInput, tbTools, tbMap, tbSent, vtVars, botVars, detailVars>>

NoTools ==
    /\ tbTools = <<>> /\ tbMap = EmptyMap /\ tbSent = <<>> /\ tbSaved = <<>>
    /\ tbDone = {}

InitTools == tbInput \in WebhookLists /\ NoTools

NextTools == BuildTools \/ IssueToken \/ PersistLaunch


\* ------------------------------------------------------------ credential broker
\* api/realtime/token.js and the statements of startSession that read its answer.
\* JSON members are strings; Undefined stands for a member that is absent.
Undefined == "<undefined>"

\* what JavaScript takes as true in `!x` and `x || y`
Truthy(v) == v \notin {Undefined, ""}

\* a || b
OrElse(a, b) == IF Truthy(a) THEN a ELSE b

\* process.env.OPENAI_API_KEY: not set, set to nothing, set
Secrets == {Undefined, "", "sk-live"}

\* What the provider's client_secrets endpoint does with a request:
\*   net      "ok", or "reject" when fetch or tokenResp.json() throws
\*   ok       tokenResp.ok, with its status
\*   value    result.value
\*   nested   result.client_secret?.value
\*   message  result.error?.message
ProviderResponses ==
    { [net |-> "reject", ok |-> FALSE, status |-> 0, value |-> Undefined,
       nested |-> Undefined, message |-> Undefined] }
    \cup { [net |-> "ok", ok |-> FALSE, status |-> 401, value |-> Undefined,
            nested |-> Undefined, message |-> m] : m \in {Undefined, "Invalid key"} }
    \cup { [net |-> "ok", ok |-> TRUE, status |-> 200, value |-> v, nested |-> n,
            message |-> Undefined] :
              v \in {Undefined, "", "ek_flat"}, n \in {Undefined, "", "ek_nested"} }

NoAnswer == [status |-> 0, error |-> Undefined, token |-> Undefined]

\* res.status(code).json({ error })
ErrorAnswer(code, text) == [status |-> code, error |-> text, token |-> Undefined]

\* (variant) a missing key is replaced by a built-in one and the request is sent
secretOrDefault(apiKey) == TRUE

\* if (!apiKey) return 500
secretConfigured(apiKey) == Truthy(apiKey)

\* (variant) only the flat location is read
credentialFlat(p) == p.value

\* const token = result.value || result.client_secret?.value
credentialOf(p) == OrElse(p.value, p.nested)

\* handler(req, res): the answer, and the requests it sent to the provider
handler(method, apiKey, p) ==
    IF method # "POST"
    THEN [res |-> ErrorAnswer(405, "Method not allowed"), requests |-> 0]
    ELSE IF ~secretConfigured(apiKey)
    THEN [res |-> ErrorAnswer(500, "OPENAI_API_KEY not configured"), requests |-> 0]
    ELSE IF p.net = "reject"
    THEN [res |-> ErrorAnswer(500, "fetch failed"), requests |-> 1]
    ELSE IF ~p.ok
    THEN [res |-> ErrorAnswer(p.status, OrElse(p.message, "Token creation failed")),
          requests |-> 1]
    ELSE [res |-> [status |-> 200, error |-> Undefined, token |-> credentialOf(p)],
          requests |-> 1]

\* startSession, lines 167-176: how the token step ends for an answer, and the
\* message of the error it throws
readToken(res) ==
    IF ~(res.status \in 200..299)
    THEN [outcome |-> "http_error", message |-> OrElse(res.error, "Token request failed")]
    ELSE IF ~Truthy(res.token)
    THEN [outcome |-> "no_token", message |-> "No ephemeral token received"]
    ELSE [outcome |-> "ok", message |-> ""]

NoExchange == [session |-> Null, provider |-> Undefined, res |-> NoAnswer]

\* the token request of invocation i is served by the handler, which the provider
\* answers with p
CredentialResp(i, p) ==
    /\ LET h == handler("POST", secret, p)
           r == readToken(h.res)
       IN  /\ TokenStep(i, r.outcome)
           /\ exchange' = [session |-> i, provider |-> p, res |-> h.res]
           /\ remoteCalls' = remoteCalls + h.requests
           /\ thrown' = [thrown EXCEPT ![i] = r.message]
    /\ UNCHANGED <<secret, whVars, evVars, launchVars>>

\* the token request of invocation i does not reach the server: fetch rejects
CredentialLost(i) ==
    /\ TokenStep(i, "reject")
    /\ thrown' = [thrown EXCEPT ![i] = "Failed to fetch"]
    /\ UNCHANGED <<secret, exchange, remoteCalls, whVars, evVars, launchVars>>

\* ---- the exchange of session descriptions -----------------------------------
ExcerptLimit == 200     \* errText.substring(0, 200)

\* texts of 10, 50 and 200 characters
Text10  == "0123456789"
Text50  == Text10 \o Text10 \o Text10 \o Text10 \o Text10
Text200 == Text50 \o Text50 \o Text50 \o Text50

\* String.prototype.substring(0, n)
substring(s, n) == IF Len(s) <= n THEN s ELSE SubSeq(s, 1, n)

\* bodies of a non-2xx answer of the calls endpoint: empty, short, at the limit,
\* one character over it
ErrorBodies == {"", "bad", Text200, Text200 \o "X"}

\* `WebRTC setup failed (${sdpResp.status}): `
SetupFailed(code) == "WebRTC setup failed (" \o code \o "): "

\* (variant) the whole body is put in the message
setupErrorWhole(code, errText) == SetupFailed(code) \o errText

\* new Error(`WebRTC setup failed (${sdpResp.status}): ${errText.substring(0, 200)}`)
setupError(code, errText) == SetupFailed(code) \o substring(errText, ExcerptLimit)

\* the calls endpoint answers the offer of invocation i: r as in SdpOutcomes,
\* with body errText when the answer is not a 2xx one
ExchangeResp(i, r, errText) ==
    /\ SdpStep(i, r)
    /\ thrown' = [thrown EXCEPT ![i] =
            CASE r = "not_ok" -> setupError("503", errText)
              [] r = "reject" -> "Failed to fetch"
              [] OTHER        -> IF pc = Null THEN "pc is null" ELSE @]
    /\ UNCHANGED <<secret, exchange, remoteCalls, whVars, evVars, launchVars>>

NoDetails ==
    /\ exchange = NoExchange /\ remoteCalls = 0
    /\ thrown = [i \in Sessions |-> ""]

\* one widget from the click to the connection, against a server with any of the
\* key settings
NextConnect ==
    \/ \E i \in Sessions, cfg \in WebhookConfigs : ClickStart(i, cfg)
    \/ ClickStop
    \/ \E i \in Sessions : ImportDone(i)
    \/ \E i \in Sessions : ImportFail(i)
    \/ \E i \in Sessions, p \in ProviderResponses : CredentialResp(i, p)
    \/ \E i \in Sessions : CredentialLost(i)
    \/ \E i \in Sessions, g \in BOOLEAN : MicResp(i, g)
    \/ \E i \in Sessions : OfferDone(i)
    \/ \E i \in Sessions : SetLocalDone(i)
    \/ \E i \in Sessions, r \in SdpOutcomes, b \in ErrorBodies : ExchangeResp(i, r, b)
    \/ \E i \in Sessions, ok \in BOOLEAN : SetRemoteDone(i, ok)
    \/ \E j \in Sessions, to \in {"connected", "disconnected", "failed"} :
          PcStateChange(j, to)
    \/ \E j \in Sessions : DcOpen(j)
    \/ \E j \in Sessions : DcClose(j)

\* ---------------------------------------------------------- webhook dispatcher
ResponseLimit == 500     \* responseBody.substring(0, 500)

Text500 == Text200 \o Text200 \o Text50 \o Text50

EmptyObject == [members |-> {}]

\* requests to /api/webhook/test: fireWebhook sends a POST with the bound URL;
\* other callers may send anything
WebhookRequests ==
    { [method |-> m, url |-> u, payload |-> EmptyObject] :
        m \in {"POST", "GET"}, u \in {Undefined, "", UrlA} }

\* What the target does with the POST:
\*   net     "ok", or "reject" when fetch throws (DNS, refused, timeout)
\*   status  webhookResp.status
\*   text    await webhookResp.text() succeeds, giving body
TargetStatuses == {200, 201, 299, 300, 302, 404, 500, 503}

Targets ==
    { [net |-> "reject", status |-> 0, text |-> FALSE, body |-> ""] }
    \cup { [net |-> "ok", status |-> c, text |-> t, body |-> b] :
             c \in TargetStatuses, t \in BOOLEAN,
             b \in {"", "ok", Text500, Text500 \o "X"} }

\* The JSON answers of the handler: the HTTP status, and the members success,
\* status, response, error (members: the ones present)
WebhookAnswer(http, members, success, code, response, error) ==
    [http |-> http, members |-> members, success |-> success, status |-> code,
     response |-> response, error |-> error]

NoWebhookAnswer == WebhookAnswer(0, {}, FALSE, 0, "", Undefined)

\* (variant) a status below 400 counts as delivered
deliveredLoose(statusCode) == statusCode < 400

\* statusCode >= 200 && statusCode < 300
delivered(statusCode) == statusCode >= 200 /\ statusCode < 300

\* handler(req, res) of /api/webhook/test: the answer and the POSTs it sent
webhookHandler(req, t) ==
    IF req.method # "POST"
    THEN [res |-> WebhookAnswer(405, {"error"}, FALSE, 0, "", "Method not allowed"),
          posts |-> 0]
    ELSE IF ~Truthy(req.url)
    THEN [res |-> WebhookAnswer(400, {"error"}, FALSE, 0, "", "Missing webhook URL"),
          posts |-> 0]
    ELSE IF t.net = "reject"
    THEN [res |-> WebhookAnswer(500, {"error", "success"}, FALSE, 0, "", "fetch failed"),
          posts |-> 1]
    ELSE LET responseBody == IF t.text THEN t.body ELSE ""
         IN  [res |-> WebhookAnswer(200, {"success", "status", "response"},
                          delivered(t.status), t.status,
                          substring(responseBody, ResponseLimit), Undefined),
              posts |-> 1]

\* fireWebhook, lines 106-111: success, status and response of the answer are
\* handed on, whatever its HTTP status; a member that is absent is undefined
relayAnswer(res) ==
    [success |-> "success" \in res.members /\ res.success,
     status  |-> IF "status" \in res.members THEN res.status ELSE 0,
     error   |-> ""]

\* fireWebhook, line 113
relayFailure == [success |-> FALSE, status |-> 0, error |-> "fetch"]

\* the handler serves the request
ProxyDispatch ==
    /\ whStage = "new"
    /\ LET h == webhookHandler(whReq, whTarget)
       IN  whRes' = h.res /\ whPosts' = whPosts + h.posts
    /\ whStage' = "answered"
    /\ UNCHANGED <<whReq, whTarget, whResult, vtVars, botVars, toolVars, connVars,
                   evVars, launchVars>>

\* fireWebhook reads the answer
RelayAnswer ==
    /\ whStage = "answered"
    /\ whResult' = relayAnswer(whRes)
    /\ whStage' = "returned"
    /\ UNCHANGED <<whReq, whTarget, whRes, whPosts, vtVars, botVars, toolVars, connVars,
                   evVars, launchVars>>

\* the request does not reach the handler: fetch('/api/webhook/test') rejects
ProxyUnreachable ==
    /\ whStage = "new"
    /\ whResult' = relayFailure
    /\ whStage' = "returned"
    /\ UNCHANGED <<whReq, whTarget, whRes, whPosts, vtVars, botVars, toolVars, connVars,
                   evVars, launchVars>>

NoDispatch ==
    /\ whRes = NoWebhookAnswer /\ whPosts = 0 /\ whResult = relayFailure
    /\ whStage = "new"

NextWebhook == ProxyDispatch \/ RelayAnswer \/ ProxyUnreachable


\* ------------------------------------------------------------ event details
MaxHeard == 4      \* transcript events delivered in one run

\* the delta member of a response.audio_transcript.delta event (absent, or a text)
Deltas == {Undefined, "Hi", " you"}

\* (variant) the pending text is replaced by the last delta
ondeltaLast(text, delta) == OrElse(delta, "")

\* case 'response.audio_transcript.delta': currentAssistantText += event.delta || ''
ondelta(text, delta) == text \o OrElse(delta, "")

\* case 'response.audio_transcript.done', lines 281-283; the line is recorded by
\* its text
ondone(w, text) ==
    IF Truthy(text) THEN appendTranscript(w, "agent", text, 0) ELSE w

\* a transcript delta arrives on channel j
TranscriptDelta(j, d) ==
    /\ Deliverable(j) /\ nHeard < MaxHeard
    /\ Apply(W)
    /\ currentAssistantText' =
            [currentAssistantText EXCEPT ![j] = ondelta(@, d)]
    /\ heard' = [heard EXCEPT ![j] = Append(@, d)]
    /\ nHeard' = nHeard + 1
    /\ UNCHANGED <<sess, calls, nEvents, botVars, toolVars, connVars, whVars,
                   received, posted, launchVars>>

\* the end of a transcript arrives on channel j
TranscriptDone(j) ==
    /\ Deliverable(j) /\ nHeard < MaxHeard
    /\ Apply(ondone(W, currentAssistantText[j]))
    /\ currentAssistantText' = [currentAssistantText EXCEPT ![j] = ""]
    /\ heard' = [heard EXCEPT ![j] = <<>>]
    /\ nHeard' = nHeard + 1
    /\ UNCHANGED <<sess, calls, nEvents, botVars, toolVars, connVars, whVars,
                   received, posted, launchVars>>

\* ---- the arguments of a tool call
\* the arguments member of a tool-call event: absent, empty, an empty object, an
\* object with a member, a text that is no JSON
Malformed == "{\"date\": "
ArgumentTexts == {Undefined, "", "{}", "{\"date\":\"fri\"}", Malformed}

\* JSON.parse: the value, or a SyntaxError
parseJSON(text) ==
    CASE text = "{}"                 -> [ok |-> TRUE, value |-> EmptyObject]
      [] text = "{\"date\":\"fri\"}" -> [ok |-> TRUE, value |-> [members |-> {"date"}]]
      [] OTHER                       -> [ok |-> FALSE, value |-> EmptyObject]

\* (variant) the SyntaxError is left to the handler's outer try
parseArgumentsUncaught(arguments) == parseJSON(OrElse(arguments, "{}"))

\* let args = {}; try { args = JSON.parse(event.arguments || '{}') } catch { args = {} }
parseArguments(arguments) ==
    LET r == parseJSON(OrElse(arguments, "{}"))
    IN  IF r.ok THEN r ELSE [ok |-> TRUE, value |-> EmptyObject]

NoPayload == [url |-> "", payload |-> EmptyObject]

\* a tool-call event for tool `name` with arguments member a arrives on channel j.
\* An error thrown before the lookup ends the handler in its outer catch block
\* (lines 376-378), which only logs.
ArgsToolCall(j, c, name, a) ==
    /\ LET args == parseArguments(a)
       IN  IF args.ok
           THEN /\ ToolCallStep(j, c, name)
                /\ posted' = [posted EXCEPT ![c] =
                        IF MapGet(toolWebhookMap, name) # ""
                        THEN [url |-> MapGet(toolWebhookMap, name),
                              payload |-> args.value]
                        ELSE @]
           ELSE /\ Deliverable(j) /\ IsNextCall(c)
                /\ Apply(W)
                /\ calls' = [calls EXCEPT ![c] =
                        [NoCall EXCEPT !.state = "done", !.ch = j, !.name = name,
                                       !.outcome = "thrown"]]
                /\ UNCHANGED <<sess, nEvents, botVars, toolVars, posted>>
    /\ received' = [received EXCEPT ![c] = a]
    /\ UNCHANGED <<connVars, whVars, currentAssistantText, heard, nHeard,
                   launchVars>>

NoEventDetails ==
    /\ currentAssistantText = [j \in Sessions |-> ""]
    /\ heard = [j \in Sessions |-> <<>>]
    /\ nHeard = 0
    /\ received = [c \in Calls |-> Undefined]
    /\ posted = [c \in Calls |-> NoPayload]

\* the widget with the transcript events and the arguments of tool calls, for its
\* first session
NextEvents ==
    \/ \E cfg \in WebhookConfigs : ClickStart(1, cfg)
    \/ ClickStop
    \/ \E i \in Sessions : ImportDone(i)
    \/ \E i \in Sessions : TokenResp(i, "ok")
    \/ \E i \in Sessions : MicResp(i, TRUE)
    \/ \E i \in Sessions : OfferDone(i)
    \/ \E i \in Sessions : SetLocalDone(i)
    \/ \E i \in Sessions : SdpResp(i, "ok")
    \/ \E i \in Sessions : SetRemoteDone(i, TRUE)
    \/ \E j \in Sessions, to \in {"connected", "disconnected", "failed"} :
          PcStateChange(j, to)
    \/ \E j \in Sessions : DcOpen(j)
    \/ \E j \in Sessions : DcClose(j)
    \/ \E j \in Sessions, d \in Deltas : TranscriptDelta(j, d)
    \/ \E j \in Sessions : TranscriptDone(j)
    \/ \E j \in Sessions, c \in Calls, n \in CallNames, a \in ArgumentTexts :
          ArgsToolCall(j, c, n, a)
    \/ \E c \in Calls, o \in PostOutcomes : WebhookDone(c, o)

\* ----------------------------------------------------------- status vocabulary
\* The status endpoint passes on the code of the platform as it is
\* (unnamed/part_002 line 40): what a status request may be answered with, for the
\* specification that takes updateStatusUI through a wide vocabulary.
StatusResponses ==
    { [outcome |-> "ok", code |-> c, message |-> m] :
        c \in StatusCodes, m \in {"", "msg"} }
    \cup { [outcome |-> "http_error", code |-> Unset, message |-> ""] }

NextStatus ==
    \/ \E u \in BOOLEAN, p \in BOOLEAN : LaunchClick(1, u, p)
    \/ \E ok \in BOOLEAN : LaunchResp(1, ok)
    \/ \E t \in 1..MaxLaunches : PollTick(t)
    \/ \E r \in StatusResponses : PollResp(1, r)

\* -------------------------------------------------------------- launch endpoint
\* api/recall/launch.js, and launchAgent reading its answer. One request is served
\* in two stretches, the insert of the session row and the bot creation, each
\* ending at an await.
\*   stage  "idle", "persisted" (the insert returned a row), "answered"
\*   row    status of the demo_sessions row of the request ("none": no row)
\*   bots   bot-creation requests sent to the platform for it
\*   res    the answer: HTTP status, success, botId, sessionId
NoLaunchAnswer == [http |-> 0, success |-> FALSE, botId |-> Null, sessionId |-> Null]
LaunchError(code) == [NoLaunchAnswer EXCEPT !.http = code]
NoBackend == [stage |-> "idle", row |-> "none", bots |-> 0, res |-> NoLaunchAnswer]

\* how the insert into demo_sessions ends: a row, {error}, or a thrown error
InsertOutcomes == {"row", "db_error", "throw"}

\* (variant) a failed insert is logged and the handler goes on
persistSessionLoose(be, keyed, db) ==
    IF ~keyed THEN [be EXCEPT !.stage = "answered", !.res = LaunchError(500)]
    ELSE IF db = "row" THEN [be EXCEPT !.stage = "persisted", !.row = "creating"]
    ELSE [be EXCEPT !.stage = "persisted"]

\* lines 14-50: the key test, then the insert and its error test
persistSession(be, keyed, db) ==
    IF ~keyed THEN [be EXCEPT !.stage = "answered", !.res = LaunchError(500)]
    ELSE IF db = "row" THEN [be EXCEPT !.stage = "persisted", !.row = "creating"]
    ELSE [be EXCEPT !.stage = "answered", !.res = LaunchError(500)]

\* how the bot-creation request ends:
\*   "created"  2xx with the bot's id, and the row update succeeds
\*   "unsaved"  2xx with the bot's id, and the row update throws
\*   "refused"  a non-2xx answer
\*   "reject"   fetch or recallResp.json() throws
CreateOutcomes == {"created", "unsaved", "refused", "reject"}

\* lines 61-113: the bot creation, the row update and the answer
createBot(be, l, r) ==
    CASE r = "created" ->
            [be EXCEPT !.stage = "answered", !.bots = @ + 1, !.row = "joining",
                       !.res = [http |-> 200, success |-> TRUE, botId |-> l,
                                sessionId |-> l]]
      [] r = "refused" ->
            [be EXCEPT !.stage = "answered", !.bots = @ + 1, !.row = "failed",
                       !.res = LaunchError(400)]
      [] OTHER ->
            [be EXCEPT !.stage = "answered", !.bots = @ + 1,
                       !.res = LaunchError(500)]

\* if (!resp.ok || !result.success) throw
launchSucceeded(res) == res.http >= 200 /\ res.http < 300 /\ res.success

\* the handler takes request l up to the insert
LaunchPersist(l, keyed, db) ==
    /\ launches[l] # "unused" /\ backend[l].stage = "idle"
    /\ backend' = [backend EXCEPT ![l] = persistSession(@, keyed, db)]
    /\ UNCHANGED <<attached, vtVars, botVars, toolVars, connVars, whVars, evVars>>

\* the handler asks the platform for a bot and answers
LaunchCreate(l, r) ==
    /\ backend[l].stage = "persisted"
    /\ backend' = [backend EXCEPT ![l] = createBot(@, l, r)]
    /\ UNCHANGED <<attached, vtVars, botVars, toolVars, connVars, whVars, evVars>>

\* launchAgent reads the answer of the handler
LaunchAnswer(l) ==
    /\ backend[l].stage = "answered"
    /\ LaunchStep(l, launchSucceeded(backend[l].res))
    /\ UNCHANGED detailVars

\* the request or its answer is lost: fetch rejects
LaunchLost(l) ==
    /\ backend[l].stage # "answered"
    /\ LaunchStep(l, FALSE)
    /\ UNCHANGED detailVars

\* ---- route change ----
\* the page has no button of the monitor any more
NoButton == [kind |-> "none", disabled |-> TRUE]

\* the function renderDemo returns to the router
routeCleanup(b) ==
    IF b.statusPollingInterval # Null
    THEN [clearInterval(b, b.statusPollingInterval) EXCEPT !.statusPollingInterval = Null]
    ELSE b

\* the hash changes while the monitor is shown: handleRoute runs the cleanup
\* function of the page and replaces the content of #app by another page
RouteChange ==
    /\ attached
    /\ ApplyB([routeCleanup(B) EXCEPT !.actions = NoButton, !.panelVisible = FALSE,
                                      !.launchBtnLive = [l \in Bots |-> FALSE]])
    /\ attached' = FALSE
    /\ lastStep' = OtherStep
    /\ UNCHANGED <<launches, polls, ends, pendingResets, stopRequests, backend,
                   vtVars, toolVars, connVars, whVars, evVars>>

NoLaunchDetails == attached = TRUE /\ backend = [l \in Bots |-> NoBackend]

\* the status responses of a run that follows the launches: the bot is in the
\* call, or the call has ended
LaunchPollResponses ==
    { r \in PollResponses : r.code \in {S_in_call_recording, S_call_ended} }

\* the monitor with its launch requests followed through the endpoint
NextLaunch ==
    \/ \E l \in Bots, u \in BOOLEAN, p \in BOOLEAN : LaunchClick(l, u, p)
    \/ \E l \in Bots, k \in BOOLEAN, db \in InsertOutcomes : LaunchPersist(l, k, db)
    \/ \E l \in Bots, r \in CreateOutcomes : LaunchCreate(l, r)
    \/ \E l \in Bots : LaunchAnswer(l)
    \/ \E l \in Bots : LaunchLost(l)
    \/ \E t \in 1..MaxLaunches : PollTick(t)
    \/ \E b \in Bots, r \in LaunchPollResponses : PollResp(b, r)
    \/ EndClick
    \/ \E b \in {Null} \cup Bots, o \in StopOutcomes : EndResp(b, o)
    \/ ResetTimeout

\* the monitor on a page that the operator may leave
NextRoute ==
    \/ \E l \in Bots, u \in BOOLEAN, p \in BOOLEAN : LaunchClick(l, u, p)
    \/ \E l \in Bots, ok \in BOOLEAN : LaunchResp(l, ok)
    \/ \E t \in 1..MaxLaunches : PollTick(t)
    \/ \E b \in Bots, r \in LaunchPollResponses : PollResp(b, r)
    \/ EndClick
    \/ \E b \in {Null} \cup Bots, o \in StopOutcomes : EndResp(b, o)
    \/ ResetTimeout
    \/ RouteChange

\* ------------------------------------------------------------------ specifications
\* the details are left alone by the specifications that do not follow them
IdleDispatcher ==
    /\ whReq = [method |-> "POST", url |-> UrlA, payload |-> EmptyObject]
    /\ whTarget = [net |-> "ok", status |-> 200, text |-> TRUE, body |-> ""]
    /\ NoDispatch

InitDetail ==
    /\ secret = "sk-live" /\ NoDetails /\ IdleDispatcher /\ NoEventDetails
    /\ NoLaunchDetails

InitVT ==
    /\ isActive = FALSE /\ pc = Null /\ dc = Null /\ audioEl = Null
    /\ localStream = Null /\ sessionTimer = Null
    /\ toolWebhookMap = EmptyMap
    /\ btnDisabled = FALSE /\ btnRecording = FALSE /\ vizActive = FALSE
    /\ status = "Idle" /\ transcript = <<>>
    /\ pcConn = [j \in Sessions |-> "none"]
    /\ pcSig = [j \in Sessions |-> "none"]
    /\ dcState = [j \in Sessions |-> "none"]
    /\ trackState = [j \in Sessions |-> "none"]
    /\ audioState = [j \in Sessions |-> "none"]
    /\ timers = {}
    /\ sent = [j \in Sessions |-> <<>>]
    /\ raised = FALSE
    /\ cleanups = 0
    /\ sess = [i \in Sessions |-> NoSession]
    /\ calls = [c \in Calls |-> NoCall]
    /\ nEvents = 0

NextVT ==
    \/ \E i \in Sessions, cfg \in WebhookConfigs : ClickStart(i, cfg)
    \/ ClickStop
    \/ \E i \in Sessions : ImportDone(i)
    \/ \E i \in Sessions : ImportFail(i)
    \/ \E i \in Sessions, r \in TokenOutcomes : TokenResp(i, r)
    \/ \E i \in Sessions, g \in BOOLEAN : MicResp(i, g)
    \/ \E i \in Sessions : OfferDone(i)
    \/ \E i \in Sessions : SetLocalDone(i)
    \/ \E i \in Sessions, r \in SdpOutcomes : SdpResp(i, r)
    \/ \E i \in Sessions, ok \in BOOLEAN : SetRemoteDone(i, ok)
    \/ \E j \in Sessions, to \in {"connected", "disconnected", "failed"} :
          PcStateChange(j, to)
    \/ \E j \in Sessions : DcOpen(j)
    \/ \E j \in Sessions : DcClose(j)
    \/ \E t \in Sessions : TimerTick(t)
    \/ \E j \in Sessions, k \in EventKinds : DcEvent(j, k)
    \/ \E j \in Sessions, c \in Calls, n \in CallNames : ToolCall(j, c, n)
    \/ \E c \in Calls, o \in PostOutcomes : WebhookDone(c, o)

vars == <<vtVars, botVars, toolVars, detailVars>>

Init == InitVT /\ InitBot /\ tbInput = <<>> /\ NoTools /\ InitDetail

\* the voice-test widget
Next == NextVT
Spec == Init /\ [][Next]_vars

\* the meeting-bot monitor
SpecBot == Init /\ [][NextBot]_vars

\* the tool pipeline, for every configuration list
InitPipeline == InitVT /\ InitBot /\ InitTools /\ InitDetail
SpecTools == InitPipeline /\ [][NextTools]_vars

\* a connection attempt in detail
InitConnect ==
    /\ InitVT /\ InitBot /\ tbInput = <<>> /\ NoTools
    /\ secret \in Secrets /\ NoDetails /\ IdleDispatcher /\ NoEventDetails
    /\ NoLaunchDetails
SpecConnect == InitConnect /\ [][NextConnect]_vars

\* the webhook dispatcher, for every request and every behaviour of the target
InitWebhook ==
    /\ InitVT /\ InitBot /\ tbInput = <<>> /\ NoTools
    /\ secret = "sk-live" /\ NoDetails
    /\ whReq \in WebhookRequests /\ whTarget \in Targets /\ NoDispatch
    /\ NoEventDetails /\ NoLaunchDetails
SpecWebhook == InitWebhook /\ [][NextWebhook]_vars

\* the events of a session in detail
SpecEvents == Init /\ [][NextEvents]_vars

\* the status display, for every code of the vocabulary
SpecStatus == Init /\ [][NextStatus]_vars

\* the launch requests of the monitor, through the endpoint
SpecLaunch == Init /\ [][NextLaunch]_vars

\* the monitor and the router
SpecRoute == Init /\ [][NextRoute]_vars

\* ------------------------------------------------------------------ claims
\* the program part of a widget value (the history fields set aside)
Program(w) == [w EXCEPT !.raised = FALSE, !.cleanups = 0]

\* C1: In every reachable state of the widget, running cleanup twice leaves the
\* state that running it once leaves: isActive false, the channel, transport,
\* stream, playback element and timer variables null, the tool map empty; and the
\* second run raises nothing.
CleanupIdempotent ==
    LET once  == cleanup(W)
        twice == cleanup(once)
    IN  /\ Program(twice) = Program(once)
        /\ ~once.raised /\ ~twice.raised
        /\ Released(once)

\* C1 witness: cleanup has just run in a state where an earlier run had released
\* everything, and a session had been set up before.
CleanupRanTwice ==
    /\ cleanups = 2
    /\ \E j \in Sessions : pcConn[j] = "closed"

\* C2 (as stated): whenever cleanup has just run, no channel is open or
\* connecting, no transport is open, no microphone track is live, no session
\* timer runs and the tool map is empty.
NothingLeftAfterCleanup ==
    cleanups > 0 =>
        /\ \A j \in Sessions : dcState[j] \notin {"connecting", "open"}
        /\ \A j \in Sessions : pcConn[j] \in {"none", "closed"}
        /\ \A j \in Sessions : trackState[j] # "live"
        /\ timers = {}
        /\ DOMAIN toolWebhookMap = {}

\* ---- sessions -----------------------------------------------------------
\* startSession invocation i is suspended at one of its awaits
InProgress(i) ==
    sess[i].pos \in {"import", "token", "mic", "offer", "setlocal", "sdp", "setremote"}

\* C11 (as stated): while a startSession invocation is in progress the start
\* control is disabled and no other invocation is in progress, and none is in
\* progress while the widget is active.
SingleActiveSession ==
    \A i \in Sessions : InProgress(i) =>
        /\ btnDisabled
        /\ ~isActive
        /\ \A k \in Sessions : InProgress(k) => k = i

\* C12 (as stated): a session that met an unrecoverable transport or channel
\* event has had cleanup invoked by its handlers exactly once, and the widget was
\* inactive when the handler of that event returned.
LostSessionCleanedOnce ==
    \A j \in Sessions : sess[j].lost =>
        sess[j].teardowns = 1 /\ ~sess[j].lostActive

\* C13 (as stated): an invocation of startSession that a failed step ended has
\* caught the failure, called cleanup, left the widget inactive with the start
\* control enabled, and shown the error message.
StartFailureCleansUp ==
    \A i \in Sessions : sess[i].pos \in {"failed", "crashed"} =>
        /\ sess[i].abort.caught /\ sess[i].abort.cleaned
        /\ sess[i].abort.idle /\ sess[i].abort.shown

ResultsFor(c) ==
    { p \in UNION { {<<j, k>> : k \in DOMAIN sent[j]} : j \in Sessions } :
        /\ sent[p[1]][p[2]].type = "conversation.item.create"
        /\ sent[p[1]][p[2]].call_id = c }

\* exactly one function-result event for c was sent, it carries `out`, and it is
\* followed at once by exactly one continuation request
SentOnce(c, out) ==
    /\ Cardinality(ResultsFor(c)) = 1
    /\ \A p \in ResultsFor(c) :
          LET log == sent[p[1]]
              k   == p[2]
          IN  /\ log[k].output = out
              /\ k + 1 \in DOMAIN log /\ log[k + 1] = ResponseCreate
              /\ k + 2 \in DOMAIN log => log[k + 2] # ResponseCreate

\* what the bridge sends for call c given the channel dc named at that moment:
\* one result and one continuation on that channel if it was open, else nothing
SentIfOpen(c, out) ==
    IF calls[c].dcAt # Null
    THEN SentOnce(c, out) /\ \A p \in ResultsFor(c) : p[1] = calls[c].dcAt
    ELSE ResultsFor(c) = {}

Succeeded(c) == calls[c].state = "done" /\ calls[c].inMap /\ calls[c].outcome = "2xx"
Failed(c) == /\ calls[c].state = "done" /\ calls[c].inMap
             /\ calls[c].outcome \in {"503", "proxy_500", "reject"}
Unconfigured(c) == calls[c].state = "done" /\ ~calls[c].inMap

\* C3 (as stated): a tool call bound to a webhook whose dispatch succeeded has
\* sent exactly one function-result event with its call id, then exactly one
\* continuation request, and appended a "succeeded" line.
SuccessAlwaysAnswered ==
    \A c \in Calls : Succeeded(c) =>
        SentOnce(c, "success") /\ calls[c].lines = <<"calling", "succeeded">>

\* C3 (amended): such a call has appended a "succeeded" line; if the channel dc
\* named when the dispatch returned was open it has sent on it exactly one
\* function-result event with its call id, followed by exactly one continuation
\* request, and otherwise it has sent nothing.
SuccessAnsweredIfOpen ==
    \A c \in Calls : Succeeded(c) =>
        /\ calls[c].lines = <<"calling", "succeeded">>
        /\ calls[c].posts = 1
        /\ SentIfOpen(c, "success")

\* C3 witness: a successful call answered on an open channel
SuccessAnswered ==
    \E c \in Calls : Succeeded(c) /\ calls[c].dcAt # Null /\ SentOnce(c, "success")

FailureAlwaysAnswered ==
    \A c \in Calls : Failed(c) =>
        /\ SentOnce(c, "failure")
        /\ calls[c].lines = <<"calling", "failed">>
        /\ calls[c].intact

\* C5 (amended): such a call has appended a "failed" line, raised nothing and left
\* the session as it was; if the channel dc named when the dispatch returned was
\* open it has sent on it one function-result event with a failure payload
\* followed by one continuation request, and otherwise it has sent nothing.
FailureAnsweredIfOpen ==
    \A c \in Calls : Failed(c) =>
        /\ calls[c].lines = <<"calling", "failed">>
        /\ calls[c].intact
        /\ SentIfOpen(c, "failure")

\* C5 witness: a dispatch that met HTTP 503, answered on an open channel of a
\* session that is still active
FailureAnswered ==
    \E c \in Calls : /\ Failed(c) /\ calls[c].outcome = "503"
                     /\ SentOnce(c, "failure") /\ isActive /\ dc = calls[c].ch
                     /\ dcState[dc] = "open"

\* ---- bot monitor --------------------------------------------------------
\* the handler that ran last handled a status response carrying `code`
PolledStatus(code) ==
    lastStep.op = "PollResp" /\ lastStep.outcome = "ok" /\ lastStep.code = code

\* no status-polling timer is running
PollingStopped == botTimers = {} /\ statusPollingInterval = Null

\* C6 (as stated): once a status response carrying "fatal_error" has been handled,
\* the local state is Failed and no polling timer is running.
FatalStopsPolling ==
    PolledStatus(S_fatal_error) => uiState = "error" /\ PollingStopped

\* C7: once a status response carrying "call_ended" has been handled, the local
\* state is Ended and no polling timer is running, whether or not a stop was ever
\* requested.
CallEndedStopsPolling ==
    PolledStatus(S_call_ended) => uiState = "done" /\ PollingStopped

\* C7 witness: that response was handled for a bot that was being polled and that
\* no stop was requested for
CallEndedWithoutStop ==
    /\ PolledStatus(S_call_ended)
    /\ lastStep.timersBefore # {}
    /\ stopRequests = {}

FailedPollChangesNothing ==
    (lastStep.op = "PollResp" /\ lastStep.outcome \in {"http_error", "reject"}) =>
        /\ uiState = lastStep.uiBefore
        /\ botTimers = lastStep.timersBefore

\* C10: at most one polling timer runs, and it is the one statusPollingInterval
\* names.
OnePollingTimer ==
    /\ Cardinality(botTimers) <= 1
    /\ botTimers \subseteq {statusPollingInterval}

\* C10 witness: a later launch started its timer and no earlier timer runs
SecondTimerAlone ==
    /\ nTimers >= 2
    /\ botTimers = {nTimers}
    /\ lastStep.op = "LaunchResp"

\* ---- tool pipeline ------------------------------------------------------
Built == "build" \in tbDone

\* positions of the configuration list the filter of the builder accepts
Accepted ==
    { k \in DOMAIN tbInput :
        /\ tbInput[k].trigger = "on_tool_call"
        /\ tbInput[k].name # <<>>
        /\ tbInput[k].url # "" }

\* the place among the built tools of the accepted webhook at position k
Rank(k) == Cardinality({ m \in Accepted : m <= k })

\* C15 (as stated): every tool built from a configuration list resolves through
\* the lookup map to the URL it was bound to.
ToolsResolveToOwnUrl ==
    Built => \A k \in DOMAIN tbTools :
        /\ tbTools[k].name \in DOMAIN tbMap
        /\ tbMap[tbTools[k].name] = tbTools[k]._webhookUrl

\* the characters of ^[a-z0-9_]+$
NameChars ==
    {"a","b","c","d","e","f","g","h","i","j","k","l","m","n","o","p","q","r","s",
     "t","u","v","w","x","y","z","0","1","2","3","4","5","6","7","8","9","_"}

WellFormedName(n) ==
    /\ n # <<>>
    /\ \A k \in DOMAIN n : n[k] \in NameChars
    /\ \A k \in 1..(Len(n) - 1) : ~(n[k] = "_" /\ n[k + 1] = "_")
    /\ n[1] # "_" /\ n[Len(n)] # "_"

\* C16: the name of every built tool is non-empty, consists of a-z, 0-9 and _,
\* has no two underscores in a row and none at either end; it is webhook_action
\* when the webhook name has no letter or digit, and book_appointment for
\* "Book Appointment!!".
ToolNamesWellFormed ==
    Built => \A k \in Accepted :
        LET name == tbTools[Rank(k)].name
            src  == tbInput[k].name
        IN  /\ WellFormedName(name)
            /\ (\A m \in DOMAIN src : src[m] \in {"_", " ", "!"}) =>
                  name = webhook_action
            /\ src = BookAppointment => name = book_appointment

\* C16 witness: the builder ran on "Book Appointment!!"
BookAppointmentBuilt ==
    /\ Built /\ Len(tbTools) = 1
    /\ tbInput[1].name = BookAppointment
    /\ tbTools[1].name = book_appointment

\* C17: the built tools are, in configuration order, those of exactly the webhooks
\* with trigger on_tool_call, a non-empty name and a non-empty URL.
FilterKeepsOrder ==
    Built =>
        /\ Len(tbTools) = Cardinality(Accepted)
        /\ \A k \in Accepted :
              /\ tbTools[Rank(k)]._webhookId = tbInput[k].id
              /\ tbTools[Rank(k)]._webhookUrl = tbInput[k].url
              /\ tbTools[Rank(k)].name = toolNameOf(tbInput[k].name)

\* C17 witness: of two webhooks the first has another trigger and only the
\* second is built
OtherTriggerLeftOut ==
    /\ Built /\ Len(tbInput) = 2 /\ Len(tbTools) = 1
    /\ tbInput[1].trigger = "end_of_call" /\ tbInput[1].url # ""
    /\ tbInput[1].name # <<>>
    /\ tbTools[1]._webhookId = tbInput[2].id

\* the set of the elements of a sequence
Range(seq) == { seq[k] : k \in DOMAIN seq }

\* the schema the claim gives for a payload field
ExpectedSchema(field) ==
    CASE field = "address" ->
            [type |-> "object", description |-> <<"text", descriptions[field]>>,
             properties |-> AddressProperties]
      [] field = "custom_data" ->
            [type |-> "object", description |-> <<"text", descriptions[field]>>,
             properties |-> NoProperties]
      [] field = "call_duration" ->
            [type |-> "number", description |-> <<"text", descriptions[field]>>,
             properties |-> NoProperties]
      [] field = "extracted_fields" ->
            [type |-> "object", description |-> <<"text", ExtractedDescription>>,
             properties |-> ExtractedProperties]
      [] field \in DOMAIN descriptions
            /\ field \notin {"address", "custom_data", "call_duration",
                              "extracted_fields"} ->
            [type |-> "string", description |-> <<"text", descriptions[field]>>,
             properties |-> NoProperties]
      [] OTHER ->
            [type |-> "string", description |-> <<"text", field>>,
             properties |-> NoProperties]

\* C18 (as stated): the schema of a built tool has one property per selected
\* payload field and no other, each as the claim gives it for its key; an unknown
\* key gives a string whose description is the key.
SchemaMatchesFields ==
    Built => \A k \in Accepted :
        LET props == tbTools[Rank(k)].parameters.properties
        IN  /\ DOMAIN props = Range(tbInput[k].payloadFields)
            /\ \A f \in DOMAIN props : props[f] = ExpectedSchema(f)

\* C19 (as stated): both extracted_fields and extracted_information give an
\* object with the seven fixed string sub-properties.
ExtractedKeysAreObjects ==
    Built => \A k \in Accepted :
        LET props == tbTools[Rank(k)].parameters.properties
        IN  \A f \in DOMAIN props \cap {"extracted_fields", "extracted_information"} :
                /\ props[f].type = "object"
                /\ props[f].properties = ExtractedProperties

\* C19 (amended): extracted_fields gives an object with the seven fixed string
\* sub-properties and the fixed description; extracted_information is an unknown
\* key and gives a string described by its key.
ExtractedFieldsIsObject ==
    Built => \A k \in Accepted :
        LET props == tbTools[Rank(k)].parameters.properties
        IN  /\ "extracted_fields" \in Range(tbInput[k].payloadFields) =>
                  /\ "extracted_fields" \in DOMAIN props
                  /\ props["extracted_fields"].type = "object"
                  /\ props["extracted_fields"].description =
                        <<"text", ExtractedDescription>>
                  /\ DOMAIN props["extracted_fields"].properties =
                        {"name", "email", "phone", "company", "service_type",
                         "preferred_date", "notes"}
                  /\ \A sub \in DOMAIN props["extracted_fields"].properties :
                        props["extracted_fields"].properties[sub].type = "string"
            /\ "extracted_information" \in Range(tbInput[k].payloadFields) =>
                  /\ "extracted_information" \in DOMAIN props
                  /\ props["extracted_information"] =
                        [type |-> "string",
                         description |-> <<"text", "extracted_information">>,
                         properties |-> NoProperties]

\* C19 witness: a tool was built from a webhook that selects both keys
BothExtractedKeysBuilt ==
    /\ Built /\ Len(tbTools) = 1
    /\ {"extracted_fields", "extracted_information"}
          \subseteq DOMAIN tbTools[1].parameters.properties

Bookkeeping == {"_webhookUrl", "_webhookId"}

\* the entries of `out` are those of tbTools, in order, without the bookkeeping
\* fields and otherwise unchanged
PassedOnClean(out) ==
    /\ Len(out) = Len(tbTools)
    /\ \A k \in DOMAIN out :
          /\ DOMAIN out[k] = DOMAIN tbTools[k] \ Bookkeeping
          /\ \A f \in DOMAIN out[k] : out[k][f] = tbTools[k][f]

\* C20: the tools sent to the credential-issuance endpoint and the tools stored in
\* the launch session row carry neither the bound URL nor the bound id, and are
\* otherwise the built tools, unchanged and in order.
NoBookkeepingLeaves ==
    /\ "token" \in tbDone => PassedOnClean(tbSent)
    /\ "launch" \in tbDone => PassedOnClean(tbSaved)

\* C20 witness: two tools bound to different URLs were sent and stored
TwoToolsPassedOn ==
    /\ {"token", "launch"} \subseteq tbDone
    /\ Len(tbTools) = 2 /\ Len(tbSent) = 2 /\ Len(tbSaved) = 2
    /\ tbTools[1]._webhookUrl # tbTools[2]._webhookUrl

\* ---- the credential step and the connection sequence (SpecConnect) ----------
\* a value that can serve as a credential or a key
Usable(v) == v # Undefined /\ v # ""

\* invocation i holds nothing a later step would have made
NothingStarted(i) ==
    /\ trackState[i] = "none" /\ pcConn[i] = "none" /\ dcState[i] = "none"
    /\ audioState[i] = "none" /\ pcSig[i] = "none"

ConfigurationError == [status |-> 500, error |-> "OPENAI_API_KEY not configured",
                       token |-> Undefined]

\* C21: when the server has no provider key (unset or empty), no request is ever
\* sent to the provider's credential endpoint, every token request is answered
\* with the configuration error (HTTP 500, "OPENAI_API_KEY not configured"), and
\* the invocation that asked ends in its catch block with that message, cleanup
\* done, holding no microphone, transport or channel.
MissingSecretIsFatal ==
    ~Usable(secret) =>
        /\ remoteCalls = 0
        /\ \A i \in Sessions :
              /\ sess[i].pos \notin {"mic", "offer", "setlocal", "sdp", "setremote",
                                     "connected"}
              /\ NothingStarted(i)
              /\ exchange.session = i =>
                    /\ exchange.res = ConfigurationError
                    /\ sess[i].pos = "failed"
                    /\ thrown[i] = "OPENAI_API_KEY not configured"
                    /\ sess[i].abort.caught /\ sess[i].abort.cleaned

\* a start was refused for the missing key
RefusedForMissingSecret ==
    /\ ~Usable(secret) /\ exchange.session = 1 /\ sess[1].pos = "failed"
    /\ status = "Error"

\* C22: for a 2xx provider answer the endpoint returns the flat value when that is
\* a non-empty string, otherwise the nested one; when neither is, the invocation
\* that asked ends in its catch block ("No ephemeral token received") holding no
\* microphone, transport or channel.
CredentialFlatThenNested ==
    \A i \in Sessions :
        (exchange.session = i /\ exchange.provider.net = "ok" /\ exchange.provider.ok
         /\ Usable(secret)) =>
            LET p == exchange.provider
            IN  /\ Usable(p.value) => exchange.res.token = p.value
                /\ (~Usable(p.value) /\ Usable(p.nested)) =>
                        exchange.res.token = p.nested
                /\ (Usable(p.value) \/ Usable(p.nested)) =>
                        thrown[i] \notin {"No ephemeral token received",
                                          "Token request failed"}
                /\ (~Usable(p.value) /\ ~Usable(p.nested)) =>
                        /\ ~Usable(exchange.res.token)
                        /\ sess[i].pos = "failed"
                        /\ thrown[i] = "No ephemeral token received"
                        /\ sess[i].abort.caught /\ sess[i].abort.cleaned
                        /\ NothingStarted(i)

\* the flat value was empty, the nested one was used and the start went on to the
\* microphone
NestedCredentialUsed ==
    /\ exchange.session = 1 /\ exchange.provider.value = ""
    /\ exchange.provider.nested = "ek_nested"
    /\ exchange.res.token = "ek_nested" /\ sess[1].pos = "mic"

\* the awaits of the try block, in program order
StepOrder == <<"token", "mic", "offer", "setlocal", "sdp", "setremote", "connected">>

StepRank(pos) == CHOOSE k \in 1..Len(StepOrder) : StepOrder[k] = pos

SetupPrefix == "WebRTC setup failed (503): "

\* C26: an invocation takes the steps credential, microphone, transport with
\* channel, offer, exchange, answer one after the other: the microphone is asked
\* for only in the step that received a credential, a transport exists only with
\* a granted microphone, a channel only with a transport, a local description only
\* with a channel. A step that fails moves the invocation to its catch block,
\* which calls cleanup; from there it takes no further step and makes nothing
\* new (no retry). The message of a non-2xx exchange answer carries at most 200
\* characters of the answer's body.
StepsInOrder ==
    [][\A i \in Sessions :
          /\ sess'[i].pos # sess[i].pos =>
                \/ sess[i].pos = "unused" /\ sess'[i].pos \in {"import", "token"}
                \/ sess[i].pos = "import" /\ sess'[i].pos \in {"token", "crashed"}
                \/ /\ sess[i].pos \in {StepOrder[k] : k \in 1..6}
                   /\ \/ sess'[i].pos = StepOrder[StepRank(sess[i].pos) + 1]
                      \/ /\ sess'[i].pos = "failed"
                         /\ cleanups' > 0 /\ ~raised'
                         /\ sess'[i].abort.caught /\ sess'[i].abort.cleaned
                         /\ ~isActive' /\ status' = "Error"
          /\ (sess'[i].pos = "mic" /\ sess[i].pos # "mic") =>
                exchange'.session = i /\ Usable(exchange'.res.token)
          /\ sess[i].pos = "failed" =>
                /\ sess'[i].pos = "failed"
                /\ trackState[i] = "none" => trackState'[i] = "none"
                /\ pcConn[i] = "none" => pcConn'[i] = "none"
                /\ dcState[i] = "none" => dcState'[i] = "none"
                /\ pcSig'[i] = pcSig[i]
          /\ pcConn'[i] # "none" => trackState'[i] # "none"
          /\ dcState'[i] # "none" => pcConn'[i] # "none"
          /\ pcSig'[i] \in {"local", "remote"} => dcState'[i] # "none"
          /\ (Len(thrown'[i]) >= Len(SetupPrefix)
              /\ SubSeq(thrown'[i], 1, Len(SetupPrefix)) = SetupPrefix) =>
                Len(thrown'[i]) <= Len(SetupPrefix) + ExcerptLimit
      ]_vars

\* an exchange answered with a long error body ended the attempt, after the
\* microphone, the transport and the channel had been made and released
ExchangeRefused ==
    /\ sess[1].pos = "failed" /\ thrown[1] = SetupPrefix \o Text200
    /\ trackState[1] = "stopped" /\ pcConn[1] = "closed" /\ pcSig[1] = "local"
    /\ pc = Null /\ dc = Null /\ localStream = Null /\ ~isActive /\ status = "Error"

\* ---- the webhook dispatcher (SpecWebhook) ----------------------------------
\* the handler was asked to dispatch: a POST that names a URL
Dispatching == whReq.method = "POST" /\ Usable(whReq.url)

\* s is the start of t
IsPrefix(s, t) == Len(s) <= Len(t) /\ SubSeq(t, 1, Len(s)) = s

NoRetries ==
    [][\A c \in Calls :
          /\ calls'[c].posts <= 1
          /\ (calls'[c].state = "done" /\ calls'[c].outcome \in PostOutcomes) =>
                calls'[c].posts = 1
          /\ calls[c].state = "done" => calls'[c].posts = calls[c].posts
      ]_vars

\* a dispatch the target refused was answered as a failure after its one POST
RefusedDispatchNotRepeated ==
    /\ calls[1].state = "done" /\ calls[1].outcome = "503" /\ calls[1].posts = 1
    /\ calls[1].lines = <<"calling", "failed">>

\* C25: the effects of channel events appear in arrival order: no transcript line
\* of a later event stands between the lines of one tool-call event.
ArrivalOrderKept ==
    \A x, y, z \in DOMAIN transcript :
        (x < y /\ y < z /\ transcript[x].call # 0
         /\ transcript[z].call = transcript[x].call) =>
            transcript[y].kind \notin {"error", "response_failed"}

\* C28: a response.done event sets the status to the display that gives the turn
\* to the user ("Your turn - speak to your agent", the Listening state of the
\* turn-taking); when the response has failed it also appends one agent line
\* about the failure, and otherwise appends nothing. Either way isActive, dc, pc,
\* the channels, the transports and the timers are left as they were and cleanup
\* is not called.
ResponseDoneKeepsSession ==
    [][\A j \in Sessions :
          /\ (DcEvent(j, "response_done") \/ DcEvent(j, "response_failed")) =>
                /\ status' = "YourTurn"
                /\ isActive' = isActive /\ dc' = dc /\ pc' = pc
                /\ dcState' = dcState /\ pcConn' = pcConn /\ timers' = timers
                /\ cleanups' = 0 /\ ~raised'
          /\ DcEvent(j, "response_done") => transcript' = transcript
          /\ DcEvent(j, "response_failed") =>
                transcript' = Append(transcript,
                                 [role |-> "agent", kind |-> "response_failed",
                                  call |-> 0])
      ]_vars

\* a failed response was reported on a session that is still connected
FailedResponseReported ==
    /\ nEvents = 1 /\ Len(transcript) = 1 /\ transcript[1].kind = "response_failed"
    /\ status = "YourTurn" /\ isActive /\ dc = 1 /\ dcState[1] = "open"
    /\ pc = 1 /\ pcConn[1] = "connected"

\* C30: every message the widget put on a channel is the function result of a
\* finished tool call, or the response.create that directly follows one; nothing
\* else, in particular no session.update, is sent when the channel opens or later.
OnlyToolMessagesSent ==
    \A j \in Sessions : \A k \in DOMAIN sent[j] :
        LET m == sent[j][k]
        IN  \/ /\ m.type = "conversation.item.create"
               /\ m.call_id \in Calls /\ calls[m.call_id].state = "done"
               /\ m = FunctionResult(m.call_id, m.output)
            \/ /\ m = ResponseCreate
               /\ k > 1 /\ sent[j][k - 1].type = "conversation.item.create"

\* a channel that opened carries the two messages of one tool call and no other
ToolMessagesOnOpenChannel ==
    /\ dcState[1] = "open" /\ sessionTimer = 1
    /\ Len(sent[1]) = 2 /\ sent[1][1].type = "conversation.item.create"
    /\ sent[1][2] = ResponseCreate

\* ---- transcript events and tool-call arguments (SpecEvents) -----------------
\* the texts of a list of delta members put together in order; an absent or
\* empty member adds nothing
RECURSIVE Joined(_)
Joined(ds) ==
    IF ds = <<>> THEN ""
    ELSE Joined(SubSeq(ds, 1, Len(ds) - 1))
            \o (IF ds[Len(ds)] = Undefined THEN "" ELSE ds[Len(ds)])

\* C27: a transcript delta changes neither the transcript nor the status; the
\* pending text of a channel always is the deltas that arrived on it since the
\* last done, joined in arrival order. A done event appends exactly one agent line
\* holding that text when the text is not empty, appends nothing when it is, and
\* leaves the pending text empty.
DeltasFlushedOnDone ==
    [][\A j \in Sessions :
          /\ currentAssistantText'[j] = Joined(heard'[j])
          /\ \A d \in Deltas :
                TranscriptDelta(j, d) =>
                    /\ transcript' = transcript /\ status' = status
                    /\ heard'[j] = Append(heard[j], d)
          /\ TranscriptDone(j) =>
                /\ currentAssistantText'[j] = ""
                /\ IF Joined(heard[j]) = ""
                   THEN transcript' = transcript
                   ELSE transcript' =
                          Append(transcript, [role |-> "agent",
                                              kind |-> Joined(heard[j]), call |-> 0])
      ]_vars

\* two deltas were shown as one line, and a further done added nothing
TwoDeltasOneLine ==
    /\ nHeard = 4 /\ heard[1] = <<>> /\ currentAssistantText[1] = ""
    /\ Len(transcript) = 1
    /\ transcript[1] = [role |-> "agent", kind |-> "Hi you", call |-> 0]

\* C29: a tool-call event whose arguments are no JSON is taken as one with the
\* empty object: the step it causes is the step of an ordinary tool call (status,
\* "calling" line, lookup; for a bound tool one POST, whose payload is the empty
\* object; for an unbound one the "unconfigured" line and the result), nothing is
\* raised, cleanup is not called, and isActive, dc and pc are left alone. Once
\* the call is finished it is intact and its result went to the open channel.
MalformedArgumentsAsEmpty ==
    [][\A j \in Sessions, c \in Calls, n \in CallNames :
          /\ ArgsToolCall(j, c, n, Malformed) =>
                /\ ToolCallStep(j, c, n)
                /\ ~raised' /\ cleanups' = 0
                /\ isActive' = isActive /\ dc' = dc /\ pc' = pc
                /\ calls'[c].lines[1] = "calling"
                /\ IF n \in DOMAIN toolWebhookMap
                   THEN /\ calls'[c].state = "inflight" /\ calls'[c].posts = 1
                        /\ posted'[c] = [url |-> toolWebhookMap[n],
                                         payload |-> EmptyObject]
                   ELSE /\ calls'[c].state = "done" /\ calls'[c].posts = 0
                        /\ calls'[c].lines = <<"calling", "unconfigured">>
                        /\ posted'[c] = NoPayload
          /\ (received[c] = Malformed /\ calls[c].state = "inflight"
              /\ calls'[c].state = "done") =>
                /\ calls'[c].intact
                /\ calls'[c].dcAt # Null =>
                      \E k \in DOMAIN sent'[calls'[c].dcAt] :
                          /\ sent'[calls'[c].dcAt][k].type = "conversation.item.create"
                          /\ sent'[calls'[c].dcAt][k].call_id = c
      ]_vars

\* a call with malformed arguments was dispatched with the empty object and
\* answered on the open channel
MalformedCallAnswered ==
    /\ received[1] = Malformed /\ calls[1].state = "done"
    /\ calls[1].outcome = "2xx" /\ calls[1].posts = 1
    /\ posted[1] = [url |-> UrlA, payload |-> EmptyObject]
    /\ calls[1].lines = <<"calling", "succeeded">>
    /\ isActive /\ dc = 1 /\ Len(sent[1]) = 2


\* ---- status mapping ----------------------------------------------------
\* the display the ordered rules of the specification give a code
MappedState(code) ==
    IF code = Unset THEN "joining"
    ELSE IF Includes(code, P_in_call) \/ code = S_active THEN "in_call"
    ELSE IF Includes(code, P_joining) \/ code = S_scheduling THEN "joining"
    ELSE IF Includes(code, P_waiting_room) THEN "joining"
    ELSE IF Includes(code, P_done) \/ Includes(code, P_ended) THEN "done"
    ELSE IF Includes(code, P_fatal) \/ Includes(code, P_error) THEN "error"
    ELSE "joining"

\* the waiting-room rule is the first one the code matches
WaitingRoomFirst(code) ==
    /\ code # Unset /\ Includes(code, P_waiting_room)
    /\ ~Includes(code, P_in_call) /\ ~Includes(code, P_joining)

\* C31: once a status response has been handled, the status dot shows the state
\* the ordered rules give its code, the first matching rule winning: in_call or
\* "active" InCall, joining or "scheduling" Joining, waiting_room Joining with
\* the waiting-room text, done or ended Ended, fatal or error Failed, any other
\* or missing code Joining; the waiting-room text is shown for no other code.
StatusMappingOrdered ==
    lastStep.op = "PollResp" /\ lastStep.outcome # "reject" =>
        /\ uiState = MappedState(lastStep.code)
        /\ (displayText = "waiting_room") = WaitingRoomFirst(lastStep.code)

\* C31 witness: the response handled last carried a code that two rules match,
\* in_call and ended, and the display is InCall
TwoRulesFirstWins ==
    /\ lastStep.op = "PollResp" /\ lastStep.outcome = "ok"
    /\ lastStep.code = P_ended \o <<"_">> \o P_in_call
    /\ uiState = "in_call"


\* ---- launch ------------------------------------------------------------
\* C32: a launch request is sent only by a click whose meeting URL and prompt
\* pass validation (a click that fails it sends nothing and shows the error); the
\* endpoint asks for a bot only for a request whose session row it has inserted;
\* a polling timer is started only by the handler of a launch answer that carries
\* success and the identifier pair, which it records; and the handler of a failed
\* launch starts no timer, records no bot id and enables the launch control that
\* the request had disabled.
LaunchDiscipline ==
    [][ /\ \A l \in Bots :
              (launches[l] = "unused" /\ launches'[l] = "inflight") =>
                  LaunchClick(l, TRUE, TRUE)
        /\ \A l \in Bots, u \in BOOLEAN, p \in BOOLEAN :
              (LaunchClick(l, u, p) /\ ~(u /\ p)) =>
                  launches' = launches /\ errorShown'
        /\ \A l \in Bots :
              backend'[l].bots > backend[l].bots => backend[l].row = "creating"
        /\ (botTimers' \ botTimers # {}) =>
              \E l \in Bots :
                  /\ launches[l] = "inflight" /\ launches'[l] = "ok"
                  /\ backend[l].res.success
                  /\ backend[l].res.botId # Null /\ backend[l].res.sessionId # Null
                  /\ currentBotId' = backend[l].res.botId
                  /\ currentSessionId' = backend[l].res.sessionId
        /\ \A l \in Bots :
              (launches[l] = "inflight" /\ launches'[l] = "failed") =>
                  /\ botTimers' = botTimers
                  /\ statusPollingInterval' = statusPollingInterval
                  /\ currentBotId' = currentBotId
                  /\ currentSessionId' = currentSessionId
                  /\ launchBtnLive[l] => actions' = LaunchButton
      ]_vars

\* C32 witness: the platform refused the bot of a request whose row was inserted;
\* the launch failed, the row is marked failed, no timer runs, no bot id is held
\* and the launch control is enabled
RefusedLaunchLeavesNothing ==
    \E l \in Bots :
        /\ launches[l] = "failed" /\ backend[l].row = "failed"
        /\ backend[l].bots = 1
        /\ lastStep.op = "LaunchResp" /\ lastStep.bot = l
        /\ botTimers = {} /\ currentBotId = Null
        /\ actions = LaunchButton /\ errorShown


\* ---- tool-call narration -----------------------------------------------
\* the outcome line of a resolved call, by how it was resolved
OutcomeLine(outcome) ==
    CASE outcome = "none" -> "unconfigured"
      [] outcome = "2xx"  -> "succeeded"
      [] OTHER            -> "failed"

\* C33: whenever the handler of a tool call reaches its end, whether the webhook
\* succeeded, failed or none was bound, it has appended a "calling" line and then
\* exactly one line, the one of its outcome, which is the last line of the
\* transcript, and it has set the status to the waiting-for-the-user display.
ToolCallNarrated ==
    [][ \A c \in Calls :
          (calls[c].state # "done" /\ calls'[c].state = "done") =>
              /\ calls'[c].lines = <<"calling", OutcomeLine(calls'[c].outcome)>>
              /\ transcript' # <<>>
              /\ transcript'[Len(transcript')] =
                    [role |-> "webhook", kind |-> OutcomeLine(calls'[c].outcome),
                     call |-> c]
              /\ status' = "YourTurn"
      ]_vars

\* C33 witness: a call whose dispatch was refused by the proxy has been resolved:
\* "calling", then "failed" on the transcript, and the status is back
FailedCallNarrated ==
    \E c \in Calls :
        /\ calls[c].state = "done" /\ calls[c].outcome = "proxy_500"
        /\ \E k \in DOMAIN transcript :
              /\ k + 1 \in DOMAIN transcript
              /\ transcript[k].kind = "calling" /\ transcript[k + 1].kind = "failed"
        /\ status = "YourTurn"


\* ---- isolation of sessions ---------------------------------------------
\* C34 (as stated): every function-result event of a tool call was sent on the
\* channel the call arrived on, and a handler that resolves a call whose channel
\* is no longer open sends nothing on any channel.
ResultsOnOwnChannel ==
    \A c \in Calls :
        /\ \A p \in ResultsFor(c) : p[1] = calls[c].ch
        /\ (calls[c].state = "done" /\ calls[c].dcAt # calls[c].ch) =>
                ResultsFor(c) = {}


\* session j has been cleaned up: cleanup closed its transport
CleanedUp(j) == pcConn[j] = "closed"

\* C35 (as stated): the handler of a close event of the channel of a cleaned-up
\* session, delivered after a later session was started, leaves the widget as it
\* is: the active flag, the handles, the status and the later session's
\* transport and channel are unchanged and cleanup is not called.
StaleEventsHarmless ==
    [][ \A j \in Sessions :
          (/\ DcClose(j) /\ CleanedUp(j)
           /\ \E k \in Sessions : k > j /\ sess[k].pos # "unused") =>
              /\ isActive' = isActive /\ dc' = dc /\ pc' = pc
              /\ status' = status /\ cleanups' = 0
              /\ \A k \in Sessions : k # j =>
                    pcConn'[k] = pcConn[k] /\ dcState'[k] = dcState[k]
      ]_vars


\* ---- the active flag ---------------------------------------------------
\* C36 (as stated): while the widget is marked active, its transport, channel and
\* microphone handles are set and what they name is not closed or stopped.
ActiveMeansLive ==
    isActive =>
        /\ pc # Null /\ dc # Null /\ localStream # Null
        /\ pcConn[pc] \notin {"none", "closed"}
        /\ dcState[dc] \in {"connecting", "open"}
        /\ trackState[localStream] = "live"


\* ---- isolation of bots -------------------------------------------------
\* C37 (as stated): the handler of a status response that was requested for a bot
\* other than the current one (the bot was stopped, or a later bot was launched)
\* leaves the display, the bot id and the polling timer as they are.
StalePollsIgnored ==
    [][ \A b \in Bots, r \in PollResponses :
          (PollResp(b, r) /\ currentBotId # b) =>
              /\ uiState' = uiState /\ displayText' = displayText
              /\ currentBotId' = currentBotId
              /\ statusPollingInterval' = statusPollingInterval
              /\ botTimers' = botTimers
      ]_vars


\* C38 (as stated): a bot that is the current one, that no stop was requested for
\* and whose polling timer runs keeps its id and a running timer through every
\* step other than the handling of one of its own status responses; the reset a
\* stop scheduled and the handling of an earlier bot's response are such steps.
LaunchedBotKept ==
    [][ \A b \in Bots :
          (/\ currentBotId = b /\ b \notin stopRequests'
           /\ statusPollingInterval \in botTimers
           /\ ~(\E r \in PollResponses : PollResp(b, r))) =>
              /\ currentBotId' = b
              /\ statusPollingInterval' \in botTimers'
      ]_vars


\* ---- route change ------------------------------------------------------
\* C39 (as stated): once the page has been left and its cleanup function has run,
\* no status-polling timer is running.
NoPollingAfterRouteChange == ~attached => botTimers = {}


\* ---- after the teardown ------------------------------------------------
\* C40 (as stated): when the dispatch of a tool call completes after the session
\* the call arrived on was cleaned up, the rest of its handler appends nothing to
\* the transcript and leaves the status as it is.
SilentAfterCleanup ==
    [][ \A c \in Calls, o \in PostOutcomes :
          (WebhookDone(c, o) /\ CleanedUp(calls[c].ch)) =>
              transcript' = transcript /\ status' = status
      ]_vars

=============================================================================
